---- MODULE Spec2Model ----
(***************************************************************************)
(* A state-machine model of the autotune real-time audio engine:           *)
(*   - AudioBuffer   (src/src/audio_buffer.cpp), sequentially (SpecBuf)    *)
(*     and with one producer and one consumer thread (SpecSPSC);           *)
(*   - AutotuneEngine (src/src/autotune_engine.cpp) with its PitchDetector,*)
(*     PitchCorrector and Quantizer (SpecEngine).                          *)
(* Names follow the source.  A trailing underscore marks a data member.    *)
(***************************************************************************)
EXTENDS Integers, Sequences, FiniteSets, TLC

(***************************************************************************)
(* Bounds of the model (not program constants).                            *)
(***************************************************************************)
\* largest AudioBuffer capacity constructed
MaxCapacity == 3
\* most frames the writes of one run report as written (fresh frame ids)
MaxWritten == 5
\* most frames the reads of one run return
MaxRead == 5

VARIABLES
    \* ---- AudioBuffer (audio_buffer.h:86-91) ----
    capacity_,      \* uint32_t capacity_
    buffer_,        \* std::vector<AudioFrame> buffer_, indexed 0..capacity_-1
    read_pos_,      \* volatile uint32_t read_pos_
    write_pos_,     \* volatile uint32_t write_pos_
    \* ---- observation of the AudioBuffer calls (history, not program state) ----
    last,           \* the last call: its kind, arguments, result and the state before it
    written_log,    \* the frames the writes reported as written, in order
    read_log,       \* the frames the reads returned, in order
    \* ---- the two threads of the single-producer/single-consumer use ----
    prod,           \* the producer's position in write and its locals
    cons,           \* the consumer's position in read and its locals
    pending,        \* payload stores of the producer not yet visible to the consumer
    \* ---- AutotuneEngine (autotune_engine.h) ----
    initialized_,           \* bool initialized_
    mode_,                  \* Mode mode_
    params_,                \* ProcessingParams params_ (the two strengths)
    current_scale_,         \* Quantizer::Scale current_scale_
    key_center_,            \* int key_center_
    current_pitch_,         \* float current_pitch_
    target_pitch_,          \* float target_pitch_
    confidence_,            \* float confidence_
    metrics_,               \* PerformanceMetrics metrics_
    latency_history_,       \* std::vector<float> latency_history_
    performance_counter_,   \* uint32_t performance_counter_
    \* ---- the engine's PitchDetector and PitchCorrector ----
    previous_pitch_,        \* PitchDetector::previous_pitch_
    phase_accumulator_,     \* PitchCorrector::phase_accumulator_
    envelope_follower_,     \* PitchCorrector::envelope_follower_
    \* ---- observation of the engine calls (history, not program state) ----
    eng_last,               \* the last call: its arguments, result and the state before it
    eng_ghost,              \* what the callers did: the arguments of the last set_scale
                            \* and set_parameters, the times measured since construction
                            \* or reset, whether the estimator has run since ("no") or
                            \* which of the two it is fresh from, and the estimator's
                            \* register before a reset it has not run since
    \* ---- Quantizer ----
    custom_scale_intervals_,    \* Quantizer::custom_scale_intervals_
    tempo_,                 \* Quantizer::tempo_, beats per minute
    time_signature_,        \* Quantizer::time_signature_
    samples_per_beat_,      \* Quantizer::samples_per_beat_, in 1/1000 sample
    q_last,                 \* observation: the last call of the quantizer, its
                            \* arguments and what it returned
    \* ---- PitchDetector and PitchCorrector on their own ----
    min_frequency_,         \* PitchDetector::min_frequency_, Hz
    max_frequency_,         \* PitchDetector::max_frequency_, Hz
    d_last,                 \* observation: the last call of the detector
    c_last                  \* observation: the last call of the corrector

bufvars == <<capacity_, buffer_, read_pos_, write_pos_>>
obsvars == <<last, written_log, read_log>>
thrvars == <<prod, cons, pending>>
engvars == <<initialized_, mode_, params_, current_scale_, key_center_,
             current_pitch_, target_pitch_, confidence_, metrics_,
             latency_history_, performance_counter_, previous_pitch_,
             phase_accumulator_, envelope_follower_, eng_last, eng_ghost>>
timvars == <<tempo_, time_signature_, samples_per_beat_>>
detvars == <<min_frequency_, max_frequency_, d_last>>
quavars == <<custom_scale_intervals_, timvars, q_last, detvars, c_last>>
vars == <<bufvars, obsvars, thrvars, engvars, quavars>>

Min(a, b) == IF a < b THEN a ELSE b
Max(a, b) == IF a > b THEN a ELSE b

(***************************************************************************)
(* AudioFrame (audio_types.h): a vector of samples, one per channel.       *)
(* The buffers of the model are built with two channels, and every frame   *)
(* handed to write has that shape.  Frame k carries the sample k on both   *)
(* channels, so a frame whose channels differ is a torn frame.             *)
(***************************************************************************)
channels_ == 2
AudioFrame(v) == [ch \in 1..channels_ |-> v]
ZeroFrame == AudioFrame(0)

(***************************************************************************)
(* AudioBuffer's observers, as functions of the two indices.               *)
(***************************************************************************)
availableAt(r, w, cap) == IF w >= r THEN w - r ELSE cap - r + w
available == availableAt(read_pos_, write_pos_, capacity_)

\* mutant of spaceAt: the reserved slot is forgotten
spaceAt_NoReservedSlot(r, w, cap) == cap - availableAt(r, w, cap)
spaceAt(r, w, cap) == cap - availableAt(r, w, cap) - 1
space == spaceAt(read_pos_, write_pos_, capacity_)

emptyAt(r, w) == r = w
empty == emptyAt(read_pos_, write_pos_)

\* mutant of fullAt: the successor of write_pos_ is not wrapped
fullAt_NoWrap(r, w, cap) == (w + 1) = r
fullAt(r, w, cap) == ((w + 1) % cap) = r
full == fullAt(read_pos_, write_pos_, capacity_)

(***************************************************************************)
(* The loop of AudioBuffer::write.  Its condition calls full(), which      *)
(* reads the members read_pos_ and write_pos_; the loop advances only the  *)
(* local current_write, and write_pos_ is stored after the loop.           *)
(* frames is the caller's array (a sequence, 1-based), i the loop index.   *)
(***************************************************************************)
\* a write loop that does not look at full()
RECURSIVE WriteLoop_IgnoresFull(_, _, _, _, _, _)
WriteLoop_IgnoresFull(frames, frame_count, i, current_write, buf, written) ==
    IF i < frame_count
    THEN WriteLoop_IgnoresFull(frames, frame_count, i + 1,
                               (current_write + 1) % capacity_,
                               [buf EXCEPT ![current_write] = frames[i + 1]],
                               written + 1)
    ELSE [buf |-> buf, current_write |-> current_write, written |-> written]

RECURSIVE WriteLoop(_, _, _, _, _, _)
WriteLoop(frames, frame_count, i, current_write, buf, written) ==
    IF i < frame_count /\ ~fullAt(read_pos_, write_pos_, capacity_)
    THEN WriteLoop(frames, frame_count, i + 1,
                   (current_write + 1) % capacity_,
                   [buf EXCEPT ![current_write] = frames[i + 1]],
                   written + 1)
    ELSE [buf |-> buf, current_write |-> current_write, written |-> written]

(***************************************************************************)
(* The loop of AudioBuffer::read: the condition calls empty(), which reads *)
(* the members; the loop advances the local current_read.                  *)
(***************************************************************************)
RECURSIVE ReadLoop(_, _, _, _, _)
ReadLoop(frame_count, i, current_read, out, read) ==
    IF i < frame_count /\ ~emptyAt(read_pos_, write_pos_)
    THEN ReadLoop(frame_count, i + 1,
                  (current_read + 1) % capacity_,
                  Append(out, buffer_[current_read]),
                  read + 1)
    ELSE [out |-> out, current_read |-> current_read, read |-> read]

(***************************************************************************)
(* History helpers.                                                        *)
(***************************************************************************)
\* the slots holding frames written and not yet read, before a call
UnreadSlots(r, w, cap) == {(r + k) % cap : k \in 0..(availableAt(r, w, cap) - 1)}
\* the slots a write of n frames starting at w stores into
StoredSlots(w, n, cap) == {(w + k) % cap : k \in 0..(n - 1)}
\* the next fresh frames a producer hands to write
FreshFrames(n) == [k \in 1..n |-> AudioFrame(Len(written_log) + k)]

IsPrefix(s, t) == Len(s) <= Len(t) /\ \A k \in 1..Len(s) : s[k] = t[k]

Before == [read_pos |-> read_pos_, write_pos |-> write_pos_,
           available |-> available, space |-> space, buffer |-> buffer_]

(***************************************************************************)
(* AudioBuffer::write(frames, frame_count).  frames_null: frames = nullptr.*)
(***************************************************************************)
AudioBuffer_write(frames_null, frame_count) ==
    /\ Len(written_log) + frame_count <= MaxWritten
    /\ IF frames_null \/ frame_count = 0
       THEN /\ UNCHANGED <<bufvars, written_log, read_log, thrvars, engvars, quavars>>
            /\ last' = [kind |-> "write", null |-> frames_null, count |-> frame_count,
                        ret |-> 0, before |-> Before, clobbered |-> FALSE,
                        single |-> last.single, nW |-> last.nW, nR |-> last.nR]
       ELSE LET frames == FreshFrames(frame_count)
                res == WriteLoop(frames, frame_count, 0, write_pos_, buffer_, 0)
            IN /\ buffer_' = res.buf
               /\ write_pos_' = res.current_write
               /\ UNCHANGED <<capacity_, read_pos_, read_log, thrvars, engvars, quavars>>
               /\ written_log' = written_log \o SubSeq(frames, 1, res.written)
               /\ last' = [kind |-> "write", null |-> FALSE, count |-> frame_count,
                           ret |-> res.written, before |-> Before,
                           clobbered |->
                               (StoredSlots(write_pos_, res.written, capacity_)
                                  \cap UnreadSlots(read_pos_, write_pos_, capacity_)) # {}
                               \/ res.written > capacity_,
                           single |-> last.single /\ frame_count = 1,
                           nW |-> last.nW + res.written, nR |-> last.nR]

(***************************************************************************)
(* AudioBuffer::read(frames, frame_count).                                 *)
(***************************************************************************)
AudioBuffer_read(frames_null, frame_count) ==
    /\ Len(read_log) + frame_count <= MaxRead
    /\ IF frames_null \/ frame_count = 0
       THEN /\ UNCHANGED <<bufvars, written_log, read_log, thrvars, engvars, quavars>>
            /\ last' = [kind |-> "read", null |-> frames_null, count |-> frame_count,
                        ret |-> 0, before |-> Before, clobbered |-> FALSE,
                        single |-> last.single, nW |-> last.nW, nR |-> last.nR]
       ELSE LET res == ReadLoop(frame_count, 0, read_pos_, <<>>, 0)
            IN /\ read_pos_' = res.current_read
               /\ UNCHANGED <<capacity_, buffer_, write_pos_, written_log, thrvars, engvars, quavars>>
               /\ read_log' = read_log \o res.out
               /\ last' = [kind |-> "read", null |-> FALSE, count |-> frame_count,
                           ret |-> res.read, before |-> Before, clobbered |-> FALSE,
                           single |-> last.single /\ frame_count = 1,
                           nW |-> last.nW, nR |-> last.nR + res.read]

(***************************************************************************)
(* AudioBuffer::clear().  The histories restart with the emptied buffer.   *)
(***************************************************************************)
AudioBuffer_clear ==
    /\ last.kind # "init"
    /\ read_pos_' = 0
    /\ write_pos_' = 0
    /\ buffer_' = [s \in 0..(capacity_ - 1) |-> ZeroFrame]
    /\ UNCHANGED <<capacity_, thrvars, engvars, quavars>>
    /\ written_log' = <<>>
    /\ read_log' = <<>>
    /\ last' = [kind |-> "init", null |-> FALSE, count |-> 0, ret |-> 0,
                before |-> Before, clobbered |-> FALSE,
                single |-> TRUE, nW |-> 0, nR |-> 0]

\* the engine of the model: AutotuneEngine(2000, 5, 2)
sample_rate_ == 2000
buffer_size_ == 5

\* Quantizer::update_timing(): the new samples_per_beat_, in 1/1000 sample
\* (samples_per_measure_ is never read)
update_timing(tempo, time_signature, sample_rate) ==
    IF time_signature \in {"SIX_EIGHT", "TWELVE_EIGHT"}
    THEN ((60 * sample_rate * 1000) \div tempo) \div 2
    ELSE (60 * sample_rate * 1000) \div tempo

\* Quantizer::Quantizer(sample_rate, tempo): tempo_ is the argument as given
QuantizerConstructed(sample_rate, tempo) ==
    /\ custom_scale_intervals_ = <<>>
    /\ tempo_ = tempo
    /\ time_signature_ = "FOUR_FOUR"
    /\ samples_per_beat_ = update_timing(tempo, "FOUR_FOUR", sample_rate)
    /\ q_last = [op |-> "construct", tempo |-> tempo]

\* PitchDetector::PitchDetector(sample_rate, buffer_size): the frequency
\* range of the constructor, 80 Hz to 2000 Hz
DetectorConstructed ==
    /\ min_frequency_ = 80
    /\ max_frequency_ = 2000
    /\ d_last = [op |-> "construct", calls |-> 0]

\* initialize_components: the quantizer at the engine's tempo_ of 120, the
\* detector and the corrector
ComponentsConstructed ==
    /\ QuantizerConstructed(sample_rate_, 120)
    /\ DetectorConstructed
    /\ c_last = [op |-> "construct"]

(***************************************************************************)
(* AutotuneEngine::AutotuneEngine(sample_rate, buffer_size, channels) and  *)
(* the constructors of its components.  initialize_components fails only   *)
(* when an allocation throws; initialized is its result.                   *)
(***************************************************************************)
EngineFieldsConstructed(initialized) ==
    /\ initialized_ = initialized
    /\ mode_ = "FULL_AUTOTUNE"
    /\ params_ = [correction_strength |-> 1000, quantize_strength |-> 800]
    /\ current_scale_ = "MAJOR"
    /\ key_center_ = 60
    /\ current_pitch_ = 0
    /\ target_pitch_ = 0
    /\ confidence_ = 0
    /\ metrics_ = [average_latency_ms |-> 0, cpu_usage_percent |-> 0,
                   buffer_underruns |-> 0, frames_processed |-> 0]
    /\ latency_history_ = <<>>
    /\ performance_counter_ = 0
    /\ previous_pitch_ = 0
    /\ phase_accumulator_ = 0
    /\ envelope_follower_ = 0
    /\ eng_last = [op |-> "construct"]
    /\ eng_ghost = [scale |-> "MAJOR", key_center |-> 60, quantize_strength |-> 800,
                    arrivals |-> <<>>, fresh |-> "constructed", pre_reset_pitch |-> 0]

EngineConstructed(initialized) ==
    /\ EngineFieldsConstructed(initialized)
    /\ ComponentsConstructed

(***************************************************************************)
(* AudioBuffer::AudioBuffer(capacity, channels): capacity zeroed frames,   *)
(* both indices 0.  (capacity = 0 makes full() divide by zero.)            *)
(***************************************************************************)
Idle == [pc |-> "idle"]

InitBuf ==
    /\ EngineConstructed(TRUE)
    /\ prod = Idle /\ cons = Idle /\ pending = {}
    /\ capacity_ \in 1..MaxCapacity
    /\ buffer_ = [s \in 0..(capacity_ - 1) |-> ZeroFrame]
    /\ read_pos_ = 0
    /\ write_pos_ = 0
    /\ written_log = <<>>
    /\ read_log = <<>>
    /\ last = [kind |-> "init", null |-> FALSE, count |-> 0, ret |-> 0,
               before |-> [read_pos |-> 0, write_pos |-> 0, available |-> 0,
                           space |-> capacity_ - 1,
                           buffer |-> [s \in 0..(capacity_ - 1) |-> ZeroFrame]],
               clobbered |-> FALSE, single |-> TRUE, nW |-> 0, nR |-> 0]

Write == \E n \in 0..(MaxCapacity + 1), nul \in BOOLEAN : AudioBuffer_write(nul, n)
Read == \E n \in 0..(MaxCapacity + 1), nul \in BOOLEAN : AudioBuffer_read(nul, n)
Clear == AudioBuffer_clear

NextBuf == Write \/ Read \/ Clear

SpecBuf == InitBuf /\ [][NextBuf]_vars

(***************************************************************************)
(* One producer thread in AudioBuffer::write and one consumer thread in    *)
(* AudioBuffer::read, with no lock.  Each step is one access to read_pos_, *)
(* write_pos_ or one channel of a slot.  read_pos_ and write_pos_ are      *)
(* volatile, not atomic: the compiler keeps their accesses in order among  *)
(* themselves, but a payload store (buffer_[..][ch] = ..) is an ordinary   *)
(* store with no release ordering before the store of write_pos_, so it    *)
(* may become visible to the other thread late: such stores wait in        *)
(* pending until a Flush.                                                  *)
(***************************************************************************)
\* most frames one call of the threads asks for
MaxCall == 2
\* most frames the producer thread reports as written in one run
MaxSent == 3
\* most frames the consumer thread receives in one run
MaxReceived == 3
\* most payload stores delayed at a time
MaxPending == 1

Store(buf, e) == [buf EXCEPT ![e.slot] = [@ EXCEPT ![e.ch] = e.val]]
SameLocation(e, f) == e.slot = f.slot /\ e.ch = f.ch

\* write, lines 18-21: the early return is not taken; locals initialised
P_call(frame_count) ==
    /\ prod.pc = "idle"
    /\ Len(written_log) + frame_count <= MaxSent
    /\ prod' = [pc |-> "check", frame_count |-> frame_count,
                frames |-> FreshFrames(frame_count), i |-> 0,
                current_write |-> write_pos_, written |-> 0, ch |-> 1]
    /\ UNCHANGED <<bufvars, obsvars, cons, pending, engvars, quavars>>

\* write, line 23: i < frame_count && !full()
P_check ==
    /\ prod.pc = "check"
    /\ prod' = [prod EXCEPT !.pc =
                   IF prod.i < prod.frame_count
                      /\ ~fullAt(read_pos_, write_pos_, capacity_)
                   THEN "store" ELSE "publish", !.ch = 1]
    /\ UNCHANGED <<bufvars, obsvars, cons, pending, engvars, quavars>>

\* write, lines 25-30: one channel of the frame is stored; after the last
\* channel current_write, written and i advance
P_store ==
    /\ prod.pc = "store"
    /\ LET e == [slot |-> prod.current_write, ch |-> prod.ch,
                 val |-> prod.frames[prod.i + 1][prod.ch]]
           older == {f \in pending : SameLocation(e, f)}
       IN \/ /\ buffer_' = Store(buffer_, e)
             /\ pending' = pending \ older
          \/ /\ Cardinality(pending \ older) < MaxPending
             /\ pending' = (pending \ older) \cup {e}
             /\ UNCHANGED buffer_
    /\ prod' = IF prod.ch < channels_
               THEN [prod EXCEPT !.ch = prod.ch + 1]
               ELSE [prod EXCEPT !.pc = "check", !.i = prod.i + 1,
                                 !.current_write = (prod.current_write + 1) % capacity_,
                                 !.written = prod.written + 1]
    /\ UNCHANGED <<capacity_, read_pos_, write_pos_, obsvars, cons, engvars, quavars>>

\* write, lines 33-34: write_pos_ = current_write; return written
P_publish ==
    /\ prod.pc = "publish"
    /\ write_pos_' = prod.current_write
    /\ written_log' = written_log \o SubSeq(prod.frames, 1, prod.written)
    /\ prod' = Idle
    /\ UNCHANGED <<capacity_, buffer_, read_pos_, last, read_log, cons, pending, engvars, quavars>>

\* a delayed payload store becomes visible
Flush ==
    /\ \E e \in pending :
          /\ buffer_' = Store(buffer_, e)
          /\ pending' = pending \ {e}
    /\ UNCHANGED <<capacity_, read_pos_, write_pos_, obsvars, prod, cons, engvars, quavars>>

\* read, lines 38-41
C_call(frame_count) ==
    /\ cons.pc = "idle"
    /\ Len(read_log) + frame_count <= MaxReceived
    /\ cons' = [pc |-> "check", frame_count |-> frame_count, i |-> 0,
                current_read |-> read_pos_, read |-> 0, ch |-> 1,
                frame |-> ZeroFrame, out |-> <<>>]
    /\ UNCHANGED <<bufvars, obsvars, prod, pending, engvars, quavars>>

\* read, lines 43-45: i < frame_count && !empty(); frames[i] = AudioFrame(channels_)
C_check ==
    /\ cons.pc = "check"
    /\ cons' = [cons EXCEPT !.pc =
                   IF cons.i < cons.frame_count /\ ~emptyAt(read_pos_, write_pos_)
                   THEN "load" ELSE "publish", !.ch = 1, !.frame = ZeroFrame]
    /\ UNCHANGED <<bufvars, obsvars, prod, pending, engvars, quavars>>

\* read, lines 46-51: one channel of the slot is loaded; after the last
\* channel current_read, read and i advance
C_load ==
    /\ cons.pc = "load"
    /\ LET fr == [cons.frame EXCEPT ![cons.ch] = buffer_[cons.current_read][cons.ch]]
       IN cons' = IF cons.ch < channels_
                  THEN [cons EXCEPT !.ch = cons.ch + 1, !.frame = fr]
                  ELSE [cons EXCEPT !.pc = "check", !.i = cons.i + 1,
                                    !.current_read = (cons.current_read + 1) % capacity_,
                                    !.read = cons.read + 1,
                                    !.out = Append(cons.out, fr)]
    /\ UNCHANGED <<bufvars, obsvars, prod, pending, engvars, quavars>>

\* read, lines 54-55: read_pos_ = current_read; return read
C_publish ==
    /\ cons.pc = "publish"
    /\ read_pos_' = cons.current_read
    /\ read_log' = read_log \o cons.out
    /\ cons' = Idle
    /\ UNCHANGED <<capacity_, buffer_, write_pos_, last, written_log, prod, pending, engvars, quavars>>

InitSPSC ==
    /\ InitBuf
    /\ capacity_ >= 2

Producer == (\E n \in 1..MaxCall : P_call(n)) \/ P_check \/ P_store \/ P_publish
Consumer == (\E n \in 1..MaxCall : C_call(n)) \/ C_check \/ C_load \/ C_publish

NextSPSC == Producer \/ Consumer \/ Flush

SpecSPSC == InitSPSC /\ [][NextSPSC]_vars

(***************************************************************************)
(* ======================= AutotuneEngine ================================ *)
(* Numbers.  The source computes in 32-bit float; the model computes in    *)
(* fixed point and truncates (\div) where a float would round:             *)
(*   samples : 1/100;   envelope, strengths, ratios, phase, confidence,     *)
(*   coefficients : 1/1000;   frequencies : milli-Hz;   MIDI note numbers  *)
(*   : cents (1/100 semitone)                                              *)
(***************************************************************************)
Unit == 1000
Abs(x) == IF x < 0 THEN -x ELSE x
Clamp(x, lo, hi) == IF x < lo THEN lo ELSE IF x > hi THEN hi ELSE x

(***************************************************************************)
(* Quantizer (quantizer.cpp).                                              *)
(***************************************************************************)
\* initialize_scales: the seven built-in interval lists, and the default of
\* get_scale_intervals
scale_intervals_(scale) ==
    CASE scale = "CHROMATIC"  -> <<0, 1, 2, 3, 4, 5, 6, 7, 8, 9, 10, 11>>
      [] scale = "MAJOR"      -> <<0, 2, 4, 5, 7, 9, 11>>
      [] scale = "MINOR"      -> <<0, 2, 3, 5, 7, 8, 10>>
      [] scale = "PENTATONIC" -> <<0, 2, 4, 7, 9>>
      [] scale = "BLUES"      -> <<0, 3, 5, 6, 7, 10>>
      [] scale = "DORIAN"     -> <<0, 2, 3, 5, 7, 9, 10>>
      [] scale = "MIXOLYDIAN" -> <<0, 2, 4, 5, 7, 9, 10>>
      [] OTHER                -> <<0, 1, 2, 3, 4, 5, 6, 7, 8, 9, 10, 11>>

\* 10000 * 2^(j/12), j = 0..11: std::pow(2, x) at the semitones of an octave
SemitoneRatio == <<10000, 10595, 11225, 11892, 12599, 13348,
                   14142, 14983, 15874, 16818, 17818, 18877>>

RECURSIVE Pow2(_)
Pow2(n) == IF n = 0 THEN 1 ELSE 2 * Pow2(n - 1)

\* floor division and remainder for a positive divisor
FloorDiv(a, b) == IF a >= 0 THEN a \div b ELSE -((-a + b - 1) \div b)
FloorMod(a, b) == a - b * FloorDiv(a, b)

\* midi_to_frequency at a whole MIDI number: 440 * 2^((s - 69) / 12), in mHz
SemitoneFrequency(s) ==
    LET oct == FloorDiv(s - 69, 12)
        j == FloorMod(s - 69, 12)
    IN IF oct >= 0 THEN 44 * SemitoneRatio[j + 1] * Pow2(oct)
                   ELSE (44 * SemitoneRatio[j + 1]) \div Pow2(-oct)

\* the MIDI numbers of the table (8 Hz .. 25 kHz)
SemitoneTable == [s \in 0..140 |-> SemitoneFrequency(s)]

\* Quantizer::midi_to_frequency(midi_note), midi_note in cents: the
\* exponential is interpolated linearly between two semitones
midi_to_frequency(midi_note) ==
    LET s == FloorDiv(midi_note, 100)
        t == FloorMod(midi_note, 100)
    IN SemitoneTable[s] + ((SemitoneTable[s + 1] - SemitoneTable[s]) * t) \div 100

\* Quantizer::frequency_to_midi(frequency): 69 + 12 * log2(frequency / 440),
\* the inverse interpolation, in cents
frequency_to_midi(frequency) ==
    IF frequency <= 0 THEN 0
    ELSE LET s == CHOOSE k \in 0..139 :
                      SemitoneTable[k] <= frequency /\ frequency < SemitoneTable[k + 1]
         IN 100 * s + ((frequency - SemitoneTable[s]) * 100)
                          \div (SemitoneTable[s + 1] - SemitoneTable[s])

\* the loop of find_nearest_scale_note over intervals[k..]
RECURSIVE NearestInterval(_, _, _, _, _)
NearestInterval(note_in_octave, intervals, k, nearest_interval, min_distance) ==
    IF k > Len(intervals) THEN nearest_interval
    ELSE LET interval == intervals[k]
             distance == Abs(note_in_octave - 100 * interval)
             n1 == IF distance < min_distance THEN interval ELSE nearest_interval
             d1 == IF distance < min_distance THEN distance ELSE min_distance
             upper_distance == Abs(note_in_octave - 100 * (interval + 12))
             n2 == IF upper_distance < d1 THEN interval + 12 ELSE n1
             d2 == IF upper_distance < d1 THEN upper_distance ELSE d1
         IN NearestInterval(note_in_octave, intervals, k + 1, n2, d2)

\* Quantizer::find_nearest_scale_note(midi_note, intervals, key_center)
find_nearest_scale_note(midi_note, intervals, key_center) ==
    IF intervals = <<>> THEN midi_note
    ELSE LET relative_note == midi_note - 100 * key_center
             octave == FloorDiv(relative_note, 1200)
             note_in_octave == relative_note - octave * 1200
             nearest_interval ==
                 NearestInterval(note_in_octave, intervals, 1, intervals[1],
                                 Abs(note_in_octave - 100 * intervals[1]))
         IN 100 * key_center + octave * 1200 + 100 * nearest_interval

\* Quantizer::get_scale_intervals(scale); custom_scale_intervals_ is empty
\* until set_custom_scale is called, which the engine never does
get_scale_intervals(scale) ==
    IF scale = "CUSTOM" THEN custom_scale_intervals_ ELSE scale_intervals_(scale)

\* Quantizer::quantize_pitch(input_pitch, scale, key_center, strength)
quantize_pitch(input_pitch, scale, key_center, strength) ==
    IF input_pitch <= 0 \/ strength <= 0 THEN input_pitch
    ELSE LET input_midi == frequency_to_midi(input_pitch)
             quantized_midi ==
                 find_nearest_scale_note(input_midi, get_scale_intervals(scale), key_center)
             result_midi == input_midi + (strength * (quantized_midi - input_midi)) \div Unit
         IN midi_to_frequency(result_midi)

(***************************************************************************)
(* PitchDetector (pitch_detector.cpp), parameterised by its configuration. *)
(***************************************************************************)
\* confidence_threshold_ = 0.3, pitch_smoothing_factor_ = 0.8
confidence_threshold_ == 300
pitch_smoothing_factor_ == 800

\* hanning_window_[i] = 0.5 * (1 - cos(2 pi i / (W - 1))), times 4, for the
\* window sizes whose weights are exact
hanning_window_(W) ==
    CASE W = 3 -> <<0, 4, 0>>
      [] W = 4 -> <<0, 3, 3, 0>>
      [] W = 5 -> <<0, 2, 4, 2, 0>>
      [] W = 7 -> <<0, 1, 3, 4, 3, 1, 0>>

\* apply_window(input, output, size); sequences are 1-based
apply_window(samples, size, W) ==
    [i \in 1..size |-> (samples[i] * hanning_window_(W)[i]) \div 4]

RECURSIVE SumProducts(_, _, _, _)
SumProducts(x, lag, i, size) ==
    IF i >= size - lag THEN 0
    ELSE x[i + 1] * x[i + lag + 1] + SumProducts(x, lag, i + 1, size)

\* compute_autocorrelation(input, output, size): output[lag], lag = 0..size-1
compute_autocorrelation(x, size) ==
    [lag \in 0..(size - 1) |-> SumProducts(x, lag, 0, size)]

\* a scan that moves on to a later lag of equal value
RECURSIVE PeakScan_LastOfTies(_, _, _, _, _)
PeakScan_LastOfTies(autocorr, lag, max_lag, peak_lag, peak_value) ==
    IF lag > max_lag THEN [lag |-> peak_lag, value |-> peak_value]
    ELSE IF autocorr[lag] >= peak_value
         THEN PeakScan_LastOfTies(autocorr, lag + 1, max_lag, lag, autocorr[lag])
         ELSE PeakScan_LastOfTies(autocorr, lag + 1, max_lag, peak_lag, peak_value)

\* the scan of find_autocorr_peak from lag to max_lag
RECURSIVE PeakScan(_, _, _, _, _)
PeakScan(autocorr, lag, max_lag, peak_lag, peak_value) ==
    IF lag > max_lag THEN [lag |-> peak_lag, value |-> peak_value]
    ELSE IF autocorr[lag] > peak_value
         THEN PeakScan(autocorr, lag + 1, max_lag, lag, autocorr[lag])
         ELSE PeakScan(autocorr, lag + 1, max_lag, peak_lag, peak_value)

\* find_autocorr_peak(autocorr, size, confidence) -> [lag, confidence]
find_autocorr_peak(autocorr, size, sr, minf, maxf) ==
    IF size < 2 THEN [lag |-> 0, confidence |-> 0]
    ELSE LET min_lag == Max(1, Min(sr \div maxf, size - 1))
             max_lag == Min(sr \div minf, size - 1)
         IN IF min_lag >= max_lag THEN [lag |-> 0, confidence |-> 0]
            ELSE LET peak == PeakScan(autocorr, min_lag + 1, max_lag,
                                      min_lag, autocorr[min_lag])
                     confidence == IF autocorr[0] > 0
                                   THEN (peak.value * Unit) \div autocorr[0]
                                   ELSE 0
                 IN [lag |-> peak.lag, confidence |-> Clamp(confidence, 0, Unit)]

\* lag_to_frequency(lag), in mHz
lag_to_frequency(lag, sr) == IF lag = 0 THEN 0 ELSE (sr * 1000) \div lag

\* smooth_pitch(current_pitch) -> [pitch, previous_pitch_]
smooth_pitch(current_pitch, previous_pitch) ==
    IF previous_pitch = 0
    THEN [pitch |-> current_pitch, previous_pitch |-> current_pitch]
    ELSE LET smoothed == (pitch_smoothing_factor_ * previous_pitch
                          + (Unit - pitch_smoothing_factor_) * current_pitch) \div Unit
         IN [pitch |-> smoothed, previous_pitch |-> smoothed]

\* a rejection that also clears the smoothing register
Rejected_ClearsRegister(previous_pitch) ==
    [pitch |-> 0, confidence |-> 0, previous_pitch |-> 0]

\* detect_pitch, "confidence = 0.0f; return 0.0f;": the register stays
Rejected(previous_pitch) ==
    [pitch |-> 0, confidence |-> 0, previous_pitch |-> previous_pitch]

\* detect_pitch from the range check on: detected_pitch is the frequency of
\* the peak
ValidatePitch(detected_pitch, confidence, minf, maxf, previous_pitch) ==
    IF detected_pitch < minf * 1000 \/ detected_pitch > maxf * 1000
    THEN Rejected(previous_pitch)
    ELSE smooth_pitch(detected_pitch, previous_pitch) @@ [confidence |-> confidence]

\* detect_pitch from the confidence check on: peak is what find_autocorr_peak
\* returned
ValidatePeak(peak, sr, minf, maxf, previous_pitch) ==
    IF peak.confidence < confidence_threshold_ \/ peak.lag = 0
    THEN Rejected(previous_pitch)
    ELSE ValidatePitch(lag_to_frequency(peak.lag, sr), peak.confidence, minf, maxf,
                       previous_pitch)

\* detect_pitch(samples, sample_count, confidence)
\*   -> [pitch, confidence, previous_pitch_]
detect_pitch(samples_null, samples, sample_count, W, sr, minf, maxf, previous_pitch) ==
    IF samples_null \/ sample_count = 0 \/ sample_count > W
    THEN Rejected(previous_pitch)
    ELSE ValidatePeak(
             find_autocorr_peak(
                 compute_autocorrelation(apply_window(samples, sample_count, W),
                                         sample_count),
                 sample_count, sr, minf, maxf),
             sr, minf, maxf, previous_pitch)

(***************************************************************************)
(* PitchCorrector (pitch_corrector.cpp).  Its registers phase_accumulator_ *)
(* and envelope_follower_ are passed in and returned.                      *)
(***************************************************************************)
\* one sample of amplitude 1.0
SampleUnit == 100

\* ProcessingResult()
DefaultResult ==
    [success |-> FALSE, detected_pitch |-> 0, corrected_pitch |-> 0,
     confidence |-> 0, latency_samples |-> 0]

\* grain_size_ = buffer_size * 2; overlap_size_ = grain_size_ / 4
overlap_size_(buffer_size) == (buffer_size * 2) \div 4

\* initialize_parameters with attack_time 0.01 s and release_time 0.1 s at
\* sample_rate_: 1 - exp(-1 / 20) and 1 - exp(-1 / 200)
attack_coeff_ == 49
release_coeff_ == 5

\* update_envelope(input) -> envelope_follower_
update_envelope(input, envelope_follower) ==
    LET target == Abs(input)
    IN IF target > envelope_follower
       THEN envelope_follower + (attack_coeff_ * (target - envelope_follower)) \div Unit
       ELSE envelope_follower + (release_coeff_ * (target - envelope_follower)) \div Unit

\* calculate_pitch_ratio(input_pitch, target_pitch, strength)
calculate_pitch_ratio(input_pitch, target_pitch, strength) ==
    IF input_pitch <= 0 \/ target_pitch <= 0 THEN Unit
    ELSE LET raw_ratio == (target_pitch * Unit) \div input_pitch
             corrected_ratio == Unit + (strength * (raw_ratio - Unit)) \div Unit
         IN Clamp(corrected_ratio, 500, 2000)

\* the loop of apply_psola_shift from sample i on
RECURSIVE PsolaLoop(_, _, _, _, _, _, _)
PsolaLoop(input, sample_count, pitch_ratio, i, phase, envelope, output) ==
    IF i >= sample_count
    THEN [output |-> output, phase |-> phase, envelope |-> envelope]
    ELSE LET read_index == phase \div Unit
             fraction == phase - read_index * Unit
             y == IF read_index < sample_count - 1
                  THEN (input[read_index + 1] * (Unit - fraction)
                        + input[read_index + 2] * fraction) \div Unit
                  ELSE IF read_index < sample_count
                       THEN input[read_index + 1]
                       ELSE 0
             advanced == phase + pitch_ratio
             phase1 == IF advanced >= sample_count * Unit THEN 0 ELSE advanced
             envelope1 == update_envelope(Abs(input[i + 1]), envelope)
         IN PsolaLoop(input, sample_count, pitch_ratio, i + 1, phase1, envelope1,
                      Append(output, (y * envelope1) \div SampleUnit))

\* apply_psola_shift(input, output, sample_count, pitch_ratio)
apply_psola_shift(input, sample_count, pitch_ratio, phase, envelope) ==
    PsolaLoop(input, sample_count, pitch_ratio, 0, phase, envelope, <<>>)

\* the values of read_index in the loop of apply_psola_shift from sample i on
RECURSIVE ReadIndices(_, _, _, _)
ReadIndices(sample_count, pitch_ratio, i, phase) ==
    IF i >= sample_count THEN <<>>
    ELSE <<phase \div Unit>>
         \o ReadIndices(sample_count, pitch_ratio, i + 1,
                        IF phase + pitch_ratio >= sample_count * Unit
                        THEN 0 ELSE phase + pitch_ratio)

\* a pass-through test that looks at the pitch only
PassThrough_PitchOnly(input_pitch, correction_strength) ==
    input_pitch <= 0

\* the pass-through test of correct_pitch
PassThrough(input_pitch, correction_strength) ==
    input_pitch <= 0 \/ correction_strength <= 0

\* correct_pitch(const Sample*, Sample*, sample_count, ...); output is the
\* caller's buffer before the call, branch names the path taken
correct_pitch_samples(input_null, output_null, input, output, sample_count, input_pitch, target_pitch, correction_strength, buffer_size, phase, envelope) ==
    IF input_null \/ output_null \/ sample_count = 0
    THEN [result |-> DefaultResult, output |-> output, phase |-> phase,
          envelope |-> envelope, branch |-> "rejected"]
    ELSE IF PassThrough(input_pitch, correction_strength)
    THEN [result |-> [DefaultResult EXCEPT !.success = TRUE,
                                           !.detected_pitch = input_pitch,
                                           !.corrected_pitch = target_pitch],
          output |-> SubSeq(input, 1, sample_count), phase |-> phase,
          envelope |-> envelope, branch |-> "passthrough"]
    ELSE apply_psola_shift(input, sample_count,
                           calculate_pitch_ratio(input_pitch, target_pitch,
                                                 correction_strength),
                           phase, envelope)
         @@ [result |-> [success |-> TRUE, detected_pitch |-> input_pitch,
                         corrected_pitch |-> target_pitch, confidence |-> 800,
                         latency_samples |-> overlap_size_(buffer_size)],
             branch |-> "shift"]

\* a frame overload that processes every channel from its own sample
correct_pitch_PerChannel(input, output, input_pitch, target_pitch, correction_strength, buffer_size, phase, envelope) ==
    IF Len(input) # Len(output) \/ Len(input) = 0
    THEN [result |-> DefaultResult, output |-> output, phase |-> phase,
          envelope |-> envelope, branch |-> "rejected"]
    ELSE [correct_pitch_samples(FALSE, FALSE, <<input[1]>>, <<0>>, 1, input_pitch,
                                target_pitch, correction_strength, buffer_size,
                                phase, envelope)
             EXCEPT !.output =
                 [ch \in 1..Len(output) |->
                     correct_pitch_samples(FALSE, FALSE, <<input[ch]>>, <<0>>, 1,
                                           input_pitch, target_pitch,
                                           correction_strength, buffer_size,
                                           phase, envelope).output[1]]]

\* correct_pitch(const AudioFrame&, AudioFrame&, ...): channel 0 is processed
\* as one sample and the result is copied to every output channel
correct_pitch(input, output, input_pitch, target_pitch, correction_strength, buffer_size, phase, envelope) ==
    IF Len(input) # Len(output) \/ Len(input) = 0
    THEN [result |-> DefaultResult, output |-> output, phase |-> phase,
          envelope |-> envelope, branch |-> "rejected"]
    ELSE [correct_pitch_samples(FALSE, FALSE, <<input[1]>>, <<0>>, 1, input_pitch,
                                target_pitch, correction_strength, buffer_size,
                                phase, envelope)
             EXCEPT !.output = [ch \in 1..Len(output) |-> @[1]]]

(***************************************************************************)
(* AutotuneEngine (autotune_engine.cpp).  A block is a sequence of frames, *)
(* a frame the sequence of its channels' samples.  processing_buffer_ and  *)
(* mono_buffer_ are rewritten by every call before they are read, so they  *)
(* are locals of the call here.                                            *)
(***************************************************************************)
\* calls of process that pass its precondition, per engine lifetime
MaxCalls == 2

Modes == {"PITCH_CORRECTION", "QUANTIZATION", "FULL_AUTOTUNE", "BYPASS"}

\* the registers a call of process may change
Registers ==
    [current_pitch |-> current_pitch_, target_pitch |-> target_pitch_,
     confidence |-> confidence_, metrics |-> metrics_,
     latency_history |-> latency_history_,
     performance_counter |-> performance_counter_,
     previous_pitch |-> previous_pitch_,
     phase_accumulator |-> phase_accumulator_,
     envelope_follower |-> envelope_follower_]

\* the test that opens process
PreconditionViolated_NoCountCheck(initialized, input_null, output_null, frame_count) ==
    ~initialized \/ input_null \/ output_null
PreconditionViolated(initialized, input_null, output_null, frame_count) ==
    ~initialized \/ input_null \/ output_null \/ frame_count = 0

\* output[i] = input[i] for i < frame_count
CopyFrames(input, output, frame_count) ==
    [i \in 1..Len(output) |-> IF i <= frame_count THEN input[i] ELSE output[i]]

\* process, case Mode::BYPASS
process_bypass_NoCopy(input, output, frame_count) ==
    [result |-> [DefaultResult EXCEPT !.success = TRUE], output |-> output]
process_bypass(input, output, frame_count) ==
    [result |-> [DefaultResult EXCEPT !.success = TRUE],
     output |-> CopyFrames(input, output, frame_count)]

\* convert_to_mono(input, frame_count) -> mono_buffer_[0 .. samples_to_process)
convert_to_mono(input, frame_count) ==
    LET samples_to_process == Min(frame_count, buffer_size_)
    IN [i \in 1..samples_to_process |->
            IF Len(input[i]) = 1 THEN input[i][1]
            ELSE IF Len(input[i]) >= 2 THEN (input[i][1] + input[i][2]) \div 2
            ELSE 0]

\* calculate_target_pitch without the quantizer: the detected pitch itself
calculate_target_pitch_Unquantized(detected_pitch, scale, key_center, quantize_strength) ==
    detected_pitch

\* calculate_target_pitch(detected_pitch); the engine always has a quantizer
calculate_target_pitch(detected_pitch, scale, key_center, quantize_strength) ==
    IF detected_pitch <= 0 THEN detected_pitch
    ELSE quantize_pitch(detected_pitch, scale, key_center, quantize_strength)

\* the loop of process_pitch_correction after frame i: r is what correct_pitch
\* returned for it
AfterFrame(acc, i, r) ==
    [result |-> r.result, output |-> [acc.output EXCEPT ![i + 1] = r.output],
     phase |-> r.phase, envelope |-> r.envelope,
     branches |-> Append(acc.branches, r.branch)]

\* the per-frame loop of process_pitch_correction from frame i on; it stops
\* after the first frame the corrector fails on.  acc: the result, the output
\* block and the corrector's registers so far
RECURSIVE CorrectFrames(_, _, _, _, _, _, _)
CorrectFrames(input, frame_count, i, input_pitch, target_pitch, correction_strength, acc) ==
    IF i >= frame_count \/ (i > 0 /\ ~acc.result.success)
    THEN acc
    ELSE CorrectFrames(input, frame_count, i + 1, input_pitch, target_pitch,
                       correction_strength,
                       AfterFrame(acc, i,
                                  correct_pitch(input[i + 1], acc.output[i + 1],
                                                input_pitch, target_pitch,
                                                correction_strength, buffer_size_,
                                                acc.phase, acc.envelope)))

\* what a mode leaves of the registers of process_pitch_correction when it
\* does not run it
NotRun(result, output) ==
    [result |-> result, output |-> output, ran |-> FALSE,
     current_pitch |-> current_pitch_, target_pitch |-> target_pitch_,
     confidence |-> confidence_, previous_pitch |-> previous_pitch_,
     phase |-> phase_accumulator_, envelope |-> envelope_follower_,
     branches |-> <<>>]

\* process_pitch_correction from the per-frame loop on: det is what the
\* detector returned, target what calculate_target_pitch returned
CorrectTowards(input, output, frame_count, det, target) ==
    [CorrectFrames(input, frame_count, 0, det.pitch, target,
                   params_.correction_strength,
                   [result |-> DefaultResult, output |-> output,
                    phase |-> phase_accumulator_, envelope |-> envelope_follower_,
                    branches |-> <<>>])
        EXCEPT !.result = [@ EXCEPT !.detected_pitch = det.pitch,
                                    !.corrected_pitch = target,
                                    !.confidence = det.confidence]]
    @@ [ran |-> TRUE, current_pitch |-> det.pitch, target_pitch |-> target,
        confidence |-> det.confidence, previous_pitch |-> det.previous_pitch]

\* process_pitch_correction from calculate_target_pitch on
CorrectDetected(input, output, frame_count, det) ==
    CorrectTowards(input, output, frame_count, det,
                   calculate_target_pitch(det.pitch, current_scale_, key_center_,
                                          params_.quantize_strength))

\* process_pitch_correction(input, output, frame_count)
process_pitch_correction(input, output, frame_count) ==
    IF frame_count = 0
    THEN NotRun(DefaultResult, output)
    ELSE CorrectDetected(input, output, frame_count,
                         detect_pitch(FALSE, convert_to_mono(input, frame_count),
                                      Min(frame_count, buffer_size_), buffer_size_,
                                      sample_rate_, min_frequency_, max_frequency_,
                                      previous_pitch_))

\* process_quantization(input, output, frame_count)
process_quantization(input, output, frame_count) ==
    [result |-> [DefaultResult EXCEPT !.success = TRUE],
     output |-> CopyFrames(input, output, frame_count)]

\* process, case Mode::FULL_AUTOTUNE after process_pitch_correction has
\* filled processing_buffer_: pc is what it returned
QuantizeCorrected(pc, output, frame_count) ==
    IF pc.result.success
    THEN [pc EXCEPT
             !.output = process_quantization(pc.output, output, frame_count).output,
             !.result.success =
                 @ /\ process_quantization(pc.output, output, frame_count).result.success]
    ELSE [pc EXCEPT !.output = output]

\* process, the switch on mode_
ProcessMode(input, output, frame_count) ==
    CASE mode_ = "PITCH_CORRECTION" ->
             process_pitch_correction(input, output, frame_count)
      [] mode_ = "QUANTIZATION" ->
             NotRun(process_quantization(input, output, frame_count).result,
                    process_quantization(input, output, frame_count).output)
      [] mode_ = "FULL_AUTOTUNE" ->
             QuantizeCorrected(
                 process_pitch_correction(input, SubSeq(input, 1, frame_count),
                                          frame_count),
                 output, frame_count)
      [] mode_ = "BYPASS" ->
             NotRun(process_bypass(input, output, frame_count).result,
                    process_bypass(input, output, frame_count).output)

\* latency_history_ keeps the last 100 measurements
history_cap == 100

RECURSIVE SumSeq(_)
SumSeq(q) == IF q = <<>> THEN 0 ELSE Head(q) + SumSeq(Tail(q))

\* update_performance_metrics, the push that drops the newest measurement
\* of a full history
RecordLatency_DropsNewest(latency_history, processing_time) ==
    IF Len(latency_history) >= history_cap THEN latency_history
    ELSE Append(latency_history, processing_time)

\* update_performance_metrics, the push_back and the erase of the front once
\* more than 100 measurements are held
RecordLatency(latency_history, processing_time) ==
    IF Len(latency_history) + 1 > history_cap
    THEN Tail(Append(latency_history, processing_time))
    ELSE Append(latency_history, processing_time)

\* the metrics after a call that took processing_time and left history
MetricsAfter(metrics, history, processing_time, frames) ==
    [metrics EXCEPT
        !.average_latency_ms = SumSeq(history) \div Len(history),
        !.cpu_usage_percent =
            (processing_time * 100) \div ((buffer_size_ * 1000000) \div sample_rate_),
        !.frames_processed = @ + frames]

\* update_performance_metrics that counts one frame per call
update_performance_metrics_CountsCalls(processing_time) ==
    [latency_history |-> RecordLatency(latency_history_, processing_time),
     metrics |-> MetricsAfter(metrics_,
                              RecordLatency(latency_history_, processing_time),
                              processing_time, 1),
     performance_counter |-> performance_counter_ + 1]

\* update_performance_metrics(processing_time) -> the three registers; times
\* in microseconds.  Both counters are uint32_t; the bounds on the number of
\* calls keep them far from 2^32
update_performance_metrics(processing_time) ==
    [latency_history |-> RecordLatency(latency_history_, processing_time),
     metrics |-> MetricsAfter(metrics_,
                              RecordLatency(latency_history_, processing_time),
                              processing_time, buffer_size_),
     performance_counter |-> performance_counter_ + 1]

\* the frames a caller passes: no channel, silence, a stereo sample whose
\* channels differ
NoChannels == <<>>
Silence == <<0, 0>>
Stereo == <<150, 50>>

\* the blocks a caller passes, each of at most buffer_size_ frames: too
\* short to estimate, silent, periodic at lag 1, periodic at lag 2, without
\* channels
Blocks == {<<Stereo>>, <<Silence, Silence>>, <<Stereo, Stereo, Stereo>>,
           <<Stereo, Stereo, Silence, Stereo>>, <<NoChannels, NoChannels>>,
           <<Stereo, NoChannels>>}

\* the microseconds the clock measures: one value per call, different
\* from call to call
ProcessingTimes == {100 + performance_counter_}

\* the arguments that violate the precondition of process, one at a time,
\* and the blocks passed with them
Violations == {"input", "output", "frame_count"}
InvalidCallBlocks == {<<Stereo>>, <<Stereo, Stereo, Stereo>>}

\* the caller's output block before the call: the shape of the input, stale
\* samples
StaleBlock(input) == [i \in 1..Len(input) |-> [ch \in 1..Len(input[i]) |-> -1]]

(***************************************************************************)
(* AutotuneEngine::process(input, output, frame_count); processing_time is *)
(* what the clock measures.                                                *)
(***************************************************************************)
AutotuneEngine_process(input_null, input, output_null, output, frame_count, processing_time) ==
    LET violated == PreconditionViolated(initialized_, input_null, output_null,
                                         frame_count)
        call == [op |-> "process", mode |-> mode_, initialized |-> initialized_,
                 input_null |-> input_null, output_null |-> output_null,
                 frame_count |-> frame_count, input |-> input,
                 output_before |-> output, before |-> Registers,
                 fresh |-> eng_ghost.fresh,
                 pre_reset_pitch |-> eng_ghost.pre_reset_pitch]
    IN /\ IF violated
          THEN /\ eng_last' = call @@ [result |-> DefaultResult, output |-> output,
                                       ran |-> FALSE, branches |-> <<>>]
               /\ UNCHANGED <<current_pitch_, target_pitch_, confidence_, metrics_,
                              latency_history_, performance_counter_,
                              previous_pitch_, phase_accumulator_,
                              envelope_follower_, eng_ghost>>
          ELSE \E m \in {ProcessMode(input, output, frame_count)},
                  u \in {update_performance_metrics(processing_time)} :
                  /\ current_pitch_' = m.current_pitch
                  /\ target_pitch_' = m.target_pitch
                  /\ confidence_' = m.confidence
                  /\ previous_pitch_' = m.previous_pitch
                  /\ phase_accumulator_' = m.phase
                  /\ envelope_follower_' = m.envelope
                  /\ latency_history_' = u.latency_history
                  /\ metrics_' = u.metrics
                  /\ performance_counter_' = u.performance_counter
                  /\ eng_last' = call @@ [result |-> m.result, output |-> m.output,
                                          ran |-> m.ran, branches |-> m.branches]
                  /\ eng_ghost' = [eng_ghost EXCEPT
                                       !.arrivals = Append(@, processing_time),
                                       !.fresh = IF m.ran THEN "no" ELSE @,
                                       !.pre_reset_pitch = IF m.ran THEN 0 ELSE @]
       /\ UNCHANGED <<bufvars, obsvars, thrvars, quavars, initialized_, mode_, params_,
                      current_scale_, key_center_>>

\* AutotuneEngine::set_mode(mode)
AutotuneEngine_set_mode(mode) ==
    /\ mode_' = mode
    /\ eng_last' = [op |-> "configure"]
    /\ UNCHANGED <<bufvars, obsvars, thrvars, quavars, initialized_, params_, current_scale_,
                   key_center_, current_pitch_, target_pitch_, confidence_, metrics_,
                   latency_history_, performance_counter_, previous_pitch_,
                   phase_accumulator_, envelope_follower_, eng_ghost>>

\* AutotuneEngine::set_parameters(params); attack_time and release_time keep
\* their defaults, so the corrector recomputes the same coefficients
AutotuneEngine_set_parameters(params) ==
    /\ params_' = params
    /\ eng_last' = [op |-> "configure"]
    /\ eng_ghost' = [eng_ghost EXCEPT !.quantize_strength = params.quantize_strength]
    /\ UNCHANGED <<bufvars, obsvars, thrvars, quavars, initialized_, mode_, current_scale_,
                   key_center_, current_pitch_, target_pitch_, confidence_, metrics_,
                   latency_history_, performance_counter_, previous_pitch_,
                   phase_accumulator_, envelope_follower_>>

\* AutotuneEngine::set_scale(scale, key_center)
AutotuneEngine_set_scale(scale, key_center) ==
    /\ current_scale_' = scale
    /\ key_center_' = key_center
    /\ eng_last' = [op |-> "configure"]
    /\ eng_ghost' = [eng_ghost EXCEPT !.scale = scale, !.key_center = key_center]
    /\ UNCHANGED <<bufvars, obsvars, thrvars, quavars, initialized_, mode_, params_,
                   current_pitch_, target_pitch_, confidence_, metrics_,
                   latency_history_, performance_counter_, previous_pitch_,
                   phase_accumulator_, envelope_follower_>>

\* configure_features without its second test: the third flag stands in
\* for the second
ConfiguredMode_FormantsAsQuantization(enable_pitch_correction, enable_quantization, enable_formant_preservation) ==
    IF enable_pitch_correction /\ enable_formant_preservation THEN "FULL_AUTOTUNE"
    ELSE IF enable_pitch_correction THEN "PITCH_CORRECTION"
    ELSE IF enable_formant_preservation THEN "QUANTIZATION"
    ELSE "BYPASS"

\* configure_features, "Update mode based on enabled features": the mode it
\* assigns
ConfiguredMode(enable_pitch_correction, enable_quantization, enable_formant_preservation) ==
    IF enable_pitch_correction /\ enable_quantization THEN "FULL_AUTOTUNE"
    ELSE IF enable_pitch_correction THEN "PITCH_CORRECTION"
    ELSE IF enable_quantization THEN "QUANTIZATION"
    ELSE "BYPASS"

\* AutotuneEngine::configure_features(enable_pitch_correction,
\* enable_quantization, enable_formant_preservation); the corrector stores
\* the third flag and never reads it
AutotuneEngine_configure_features(enable_pitch_correction, enable_quantization, enable_formant_preservation) ==
    /\ mode_' = ConfiguredMode(enable_pitch_correction, enable_quantization,
                               enable_formant_preservation)
    /\ eng_last' = [op |-> "configure_features",
                    enable_pitch_correction |-> enable_pitch_correction,
                    enable_quantization |-> enable_quantization,
                    enable_formant_preservation |-> enable_formant_preservation,
                    mode_before |-> mode_]
    /\ UNCHANGED <<bufvars, obsvars, thrvars, quavars, initialized_, params_, current_scale_,
                   key_center_, current_pitch_, target_pitch_, confidence_, metrics_,
                   latency_history_, performance_counter_, previous_pitch_,
                   phase_accumulator_, envelope_follower_, eng_ghost>>

\* PitchDetector::reset() that leaves the register as it is
PitchDetector_reset_KeepsRegister(previous_pitch) == previous_pitch

\* PitchDetector::reset(): the new previous_pitch_ (the two work buffers it
\* zeroes are overwritten by every detect_pitch before they are read)
PitchDetector_reset(previous_pitch) == 0

\* PitchCorrector::reset() that leaves the envelope as it is
PitchCorrector_reset_KeepsEnvelope(phase, envelope) ==
    [phase |-> 0, envelope |-> envelope]

\* PitchCorrector::reset(): the new phase_accumulator_ and envelope_follower_
\* (previous_input_pitch_, previous_target_pitch_ and the two grain buffers
\* are never read)
PitchCorrector_reset(phase, envelope) == [phase |-> 0, envelope |-> 0]

\* AutotuneEngine::reset(): the detector, the corrector, the ring buffers
\* (AudioBuffer::clear) and the engine's own registers; Quantizer::reset()
\* has an empty body
AutotuneEngine_reset ==
    /\ previous_pitch_' = PitchDetector_reset(previous_pitch_)
    /\ phase_accumulator_' =
           PitchCorrector_reset(phase_accumulator_, envelope_follower_).phase
    /\ envelope_follower_' =
           PitchCorrector_reset(phase_accumulator_, envelope_follower_).envelope
    /\ read_pos_' = 0
    /\ write_pos_' = 0
    /\ buffer_' = [s \in 0..(capacity_ - 1) |-> ZeroFrame]
    /\ current_pitch_' = 0
    /\ target_pitch_' = 0
    /\ confidence_' = 0
    /\ metrics_' = [average_latency_ms |-> 0, cpu_usage_percent |-> 0,
                    buffer_underruns |-> 0, frames_processed |-> 0]
    /\ performance_counter_' = 0
    /\ latency_history_' = <<>>
    /\ eng_last' = [op |-> "reset", before |-> Registers]
    /\ eng_ghost' = [eng_ghost EXCEPT !.arrivals = <<>>, !.fresh = "reset",
                                       !.pre_reset_pitch = previous_pitch_]
    /\ UNCHANGED <<capacity_, obsvars, thrvars, quavars, initialized_, mode_, params_,
                   current_scale_, key_center_>>

\* the engine after construction, with its input ring buffer of
\* buffer_size_ * 4 frames
InitEngine ==
    /\ \E initialized \in BOOLEAN : EngineConstructed(initialized)
    /\ prod = Idle /\ cons = Idle /\ pending = {}
    /\ capacity_ = buffer_size_ * 4
    /\ buffer_ = [s \in 0..(capacity_ - 1) |-> ZeroFrame]
    /\ read_pos_ = 0
    /\ write_pos_ = 0
    /\ written_log = <<>>
    /\ read_log = <<>>
    /\ last = [kind |-> "init", null |-> FALSE, count |-> 0, ret |-> 0,
               before |-> [read_pos |-> 0, write_pos |-> 0, available |-> 0,
                           space |-> capacity_ - 1,
                           buffer |-> [s \in 0..(capacity_ - 1) |-> ZeroFrame]],
               clobbered |-> FALSE, single |-> TRUE, nW |-> 0, nR |-> 0]

Process ==
    /\ performance_counter_ < MaxCalls
    /\ \E input \in Blocks, processing_time \in ProcessingTimes :
        AutotuneEngine_process(FALSE, input, FALSE, StaleBlock(input), Len(input),
                               processing_time)
\* AutotuneEngine::process_frame(input, output): process(&input, &output, 1)
AutotuneEngine_process_frame(input, output, processing_time) ==
    AutotuneEngine_process(FALSE, <<input>>, FALSE, <<output>>, 1, processing_time)

\* the frames a caller passes to process_frame
Frames == {Stereo, NoChannels}

ProcessFrame ==
    /\ performance_counter_ < MaxCalls
    /\ \E input \in Frames, processing_time \in ProcessingTimes :
        AutotuneEngine_process_frame(input, StaleBlock(<<input>>)[1], processing_time)
ProcessInvalid ==
    \E input \in InvalidCallBlocks, violation \in Violations,
       processing_time \in ProcessingTimes :
        AutotuneEngine_process(violation = "input", input, violation = "output",
                               StaleBlock(input),
                               IF violation = "frame_count" THEN 0 ELSE Len(input),
                               processing_time)
SetMode == \E mode \in Modes : AutotuneEngine_set_mode(mode)
SetParameters ==
    \E cs \in {0, 1000}, qs \in {0, 800} :
        AutotuneEngine_set_parameters([correction_strength |-> cs,
                                       quantize_strength |-> qs])
SetScale ==
    \E scale \in {"MAJOR", "PENTATONIC"}, key_center \in {60} :
        AutotuneEngine_set_scale(scale, key_center)
ConfigureFeatures ==
    \E pc \in BOOLEAN, q \in BOOLEAN, fp \in BOOLEAN :
        AutotuneEngine_configure_features(pc, q, fp)
Reset == AutotuneEngine_reset

NextEngine ==
    Process \/ ProcessFrame \/ ProcessInvalid \/ SetMode \/ SetParameters \/ SetScale \/ ConfigureFeatures \/ Reset

SpecEngine == InitEngine /\ [][NextEngine]_vars

(***************************************************************************)
(* The engine late in a session, when latency_history_ fills up.           *)
(***************************************************************************)
\* the measurements of the first n accepted calls (ProcessingTimes)
FirstTimes(n) == [i \in 1..n |-> 100 + (i - 1)]

\* the engine after set_mode(BYPASS), n accepted process calls and another
\* set_mode(BYPASS): Bypass leaves the detector and the corrector alone, and
\* update_performance_metrics has run n times
EngineAfterBypassCalls(n) ==
    /\ initialized_ = TRUE
    /\ mode_ = "BYPASS"
    /\ params_ = [correction_strength |-> 1000, quantize_strength |-> 800]
    /\ current_scale_ = "MAJOR"
    /\ key_center_ = 60
    /\ current_pitch_ = 0
    /\ target_pitch_ = 0
    /\ confidence_ = 0
    /\ latency_history_ = FirstTimes(n)
    /\ metrics_ = [average_latency_ms |-> SumSeq(FirstTimes(n)) \div n,
                   cpu_usage_percent |->
                       ((100 + (n - 1)) * 100)
                           \div ((buffer_size_ * 1000000) \div sample_rate_),
                   buffer_underruns |-> 0, frames_processed |-> n * buffer_size_]
    /\ performance_counter_ = n
    /\ previous_pitch_ = 0
    /\ phase_accumulator_ = 0
    /\ envelope_follower_ = 0
    /\ eng_last = [op |-> "configure"]
    /\ eng_ghost = [scale |-> "MAJOR", key_center |-> 60, quantize_strength |-> 800,
                    arrivals |-> FirstTimes(n), fresh |-> "constructed",
                    pre_reset_pitch |-> 0]
    /\ ComponentsConstructed

\* the session starts one call before the history is full
InitHistory ==
    /\ EngineAfterBypassCalls(history_cap - 1)
    /\ prod = Idle /\ cons = Idle /\ pending = {}
    /\ capacity_ = buffer_size_ * 4
    /\ buffer_ = [s \in 0..(capacity_ - 1) |-> ZeroFrame]
    /\ read_pos_ = 0
    /\ write_pos_ = 0
    /\ written_log = <<>>
    /\ read_log = <<>>
    /\ last = [kind |-> "init", null |-> FALSE, count |-> 0, ret |-> 0,
               before |-> [read_pos |-> 0, write_pos |-> 0, available |-> 0,
                           space |-> capacity_ - 1,
                           buffer |-> [s \in 0..(capacity_ - 1) |-> ZeroFrame]],
               clobbered |-> FALSE, single |-> TRUE, nW |-> 0, nR |-> 0]

\* the blocks passed late in the session: silent, periodic at lag 1
HistoryBlocks == {<<Silence, Silence>>, <<Stereo, Stereo, Stereo>>}

ProcessLate ==
    /\ performance_counter_ < history_cap + MaxCalls
    /\ \E input \in HistoryBlocks, processing_time \in ProcessingTimes :
        AutotuneEngine_process(FALSE, input, FALSE, StaleBlock(input), Len(input),
                               processing_time)

NextHistory == ProcessLate \/ ProcessInvalid \/ SetMode

SpecHistory == InitHistory /\ [][NextHistory]_vars

(***************************************************************************)
(* The Quantizer on its own (quantizer.cpp), as the bindings expose it.    *)
(***************************************************************************)
\* the longest list passed to set_custom_scale
MaxCustomLen == 2

\* Quantizer::set_custom_scale(intervals): the copy, then std::sort
Quantizer_set_custom_scale(intervals) ==
    /\ custom_scale_intervals_' = SortSeq(intervals, LAMBDA a, b : a < b)
    /\ q_last' = [op |-> "set_custom_scale", intervals |-> intervals]
    /\ UNCHANGED <<bufvars, obsvars, thrvars, engvars, timvars, detvars, c_last>>

\* Quantizer::quantize_pitch(input_pitch, scale, key_center, strength) as a
\* call: q_last keeps the arguments and the frequency returned
Quantizer_quantize_pitch(input_pitch, scale, key_center, strength) ==
    /\ q_last' = [op |-> "quantize_pitch", input_pitch |-> input_pitch,
                  scale |-> scale, key_center |-> key_center, strength |-> strength,
                  result |-> quantize_pitch(input_pitch, scale, key_center, strength)]
    /\ UNCHANGED <<bufvars, obsvars, thrvars, engvars, custom_scale_intervals_, timvars,
                   detvars, c_last>>

\* Quantizer::get_nearest_note(input_pitch, scale, key_center) -> Note;
\* 1200 * log2(input_pitch / quantized_freq) is the difference of the two
\* frequencies in cents
get_nearest_note(input_pitch, scale, key_center) ==
    IF input_pitch <= 0 THEN [frequency |-> 0, midi_note |-> 0, cents |-> 0]
    ELSE LET quantized_midi ==
                 find_nearest_scale_note(frequency_to_midi(input_pitch),
                                         get_scale_intervals(scale), key_center)
         IN [frequency |-> midi_to_frequency(quantized_midi),
             midi_note |-> quantized_midi \div 100,
             cents |-> frequency_to_midi(input_pitch)
                           - frequency_to_midi(midi_to_frequency(quantized_midi))]

\* Quantizer::get_nearest_note as a call
Quantizer_get_nearest_note(input_pitch, scale, key_center) ==
    /\ q_last' = [op |-> "get_nearest_note", input_pitch |-> input_pitch,
                  scale |-> scale, key_center |-> key_center,
                  note |-> get_nearest_note(input_pitch, scale, key_center)]
    /\ UNCHANGED <<bufvars, obsvars, thrvars, engvars, custom_scale_intervals_, timvars,
                   detvars, c_last>>

\* Quantizer::Quantizer(sample_rate, tempo): the Custom scale is empty
InitQuantizer ==
    /\ InitEngine
    /\ initialized_

\* the scales of enum class Scale
Scales == {"CHROMATIC", "MAJOR", "MINOR", "PENTATONIC", "BLUES", "DORIAN",
           "MIXOLYDIAN", "CUSTOM"}

\* the values of the lists callers pass to set_custom_scale: the last
\* semitone of the octave, a semitone above the octave
CustomValues == {11, 14}
CustomLists == UNION {[1..n -> CustomValues] : n \in 0..MaxCustomLen}

\* the roots and the pitches callers ask about, the pitches as MIDI cents:
\* on a note, between two notes, just below the octave, above the octave
KeyCenters == {60, 62}
QuantizerMidi == {6000, 6030, 7190, 7400}
QuantizerPitches == {0} \cup {midi_to_frequency(c) : c \in QuantizerMidi}
Strengths == {0, 500, Unit}

SetCustomScale == \E intervals \in CustomLists : Quantizer_set_custom_scale(intervals)
QuantizePitch ==
    \E input_pitch \in QuantizerPitches, scale \in Scales, key_center \in KeyCenters,
       strength \in Strengths :
        Quantizer_quantize_pitch(input_pitch, scale, key_center, strength)
GetNearestNote ==
    \E input_pitch \in QuantizerPitches, scale \in Scales, key_center \in KeyCenters :
        Quantizer_get_nearest_note(input_pitch, scale, key_center)

NextQuantizer == SetCustomScale \/ QuantizePitch \/ GetNearestNote

SpecQuantizer == InitQuantizer /\ [][NextQuantizer]_vars

(***************************************************************************)
(* The Quantizer's tempo and timing grid (quantizer.cpp).                  *)
(***************************************************************************)
\* the engine's fields and ring buffer as constructed, for the components
\* taken on their own
EngineIdle ==
    /\ EngineFieldsConstructed(TRUE)
    /\ prod = Idle /\ cons = Idle /\ pending = {}
    /\ capacity_ = buffer_size_ * 4
    /\ buffer_ = [s \in 0..(capacity_ - 1) |-> ZeroFrame]
    /\ read_pos_ = 0
    /\ write_pos_ = 0
    /\ written_log = <<>>
    /\ read_log = <<>>
    /\ last = [kind |-> "init", null |-> FALSE, count |-> 0, ret |-> 0,
               before |-> [read_pos |-> 0, write_pos |-> 0, available |-> 0,
                           space |-> capacity_ - 1,
                           buffer |-> [s \in 0..(capacity_ - 1) |-> ZeroFrame]],
               clobbered |-> FALSE, single |-> TRUE, nW |-> 0, nR |-> 0]

\* Quantizer::get_samples_per_grid(resolution), in 1/1000 sample
get_samples_per_grid(resolution, samples_per_beat) ==
    CASE resolution = "QUARTER_NOTE"   -> samples_per_beat
      [] resolution = "EIGHTH_NOTE"    -> samples_per_beat \div 2
      [] resolution = "SIXTEENTH_NOTE" -> samples_per_beat \div 4
      [] resolution = "TRIPLET"        -> samples_per_beat \div 3
      [] resolution = "DOTTED"         -> (samples_per_beat * 3) \div 2
      [] OTHER                         -> samples_per_beat

\* quantize_timing from the grid position on (1/1000 grid step): std::round,
\* the blend by strength, and the conversion back to whole samples
QuantizeOnGrid(grid_position, strength, samples_per_grid) ==
    ((grid_position
         + (strength * (((grid_position + 500) \div 1000) * 1000 - grid_position))
               \div Unit)
        * (samples_per_grid \div 1000)) \div 1000

\* Quantizer::quantize_timing(input_time, grid_resolution, strength)
quantize_timing(input_time, grid_resolution, strength, samples_per_beat) ==
    IF strength <= 0 THEN input_time
    ELSE QuantizeOnGrid((input_time * 1000000)
                            \div get_samples_per_grid(grid_resolution, samples_per_beat),
                        strength,
                        get_samples_per_grid(grid_resolution, samples_per_beat))

\* Quantizer::set_tempo(tempo): std::clamp, then update_timing
Quantizer_set_tempo(tempo) ==
    /\ tempo_' = Clamp(tempo, 60, 200)
    /\ samples_per_beat_' =
           update_timing(Clamp(tempo, 60, 200), time_signature_, sample_rate_)
    /\ q_last' = [op |-> "set_tempo", tempo |-> tempo]
    /\ UNCHANGED <<bufvars, obsvars, thrvars, engvars, custom_scale_intervals_,
                   time_signature_, detvars, c_last>>

\* Quantizer::set_time_signature(time_sig)
Quantizer_set_time_signature(time_sig) ==
    /\ time_signature_' = time_sig
    /\ samples_per_beat_' = update_timing(tempo_, time_sig, sample_rate_)
    /\ q_last' = [op |-> "set_time_signature", tempo |-> q_last.tempo]
    /\ UNCHANGED <<bufvars, obsvars, thrvars, engvars, custom_scale_intervals_,
                   tempo_, detvars, c_last>>

\* Quantizer::reset(): an empty body
Quantizer_reset ==
    /\ q_last' = [op |-> "reset", tempo |-> q_last.tempo]
    /\ UNCHANGED <<bufvars, obsvars, thrvars, engvars, custom_scale_intervals_,
                   timvars, detvars, c_last>>

\* Quantizer::quantize_timing as a call; q_last keeps the tempo last given
\* to the constructor or to set_tempo
Quantizer_quantize_timing(input_time, grid_resolution, strength) ==
    /\ q_last' = [op |-> "quantize_timing", tempo |-> q_last.tempo,
                  input_time |-> input_time, grid_resolution |-> grid_resolution,
                  strength |-> strength,
                  samples_per_grid |->
                      get_samples_per_grid(grid_resolution, samples_per_beat_),
                  result |-> quantize_timing(input_time, grid_resolution, strength,
                                             samples_per_beat_)]
    /\ UNCHANGED <<bufvars, obsvars, thrvars, engvars, custom_scale_intervals_,
                   timvars, detvars, c_last>>

\* the tempos callers pass: below the range, in it, above it
ConstructorTempos == {30, 120, 300}
Tempos == {30, 90, 300}
TimeSignatures == {"FOUR_FOUR", "THREE_FOUR", "TWO_FOUR", "SIX_EIGHT", "TWELVE_EIGHT"}
GridResolutions == {"QUARTER_NOTE", "EIGHTH_NOTE", "SIXTEENTH_NOTE", "TRIPLET", "DOTTED"}
InputTimes == {0, 300, 700}

\* Quantizer(sample_rate_, tempo)
InitTiming ==
    /\ EngineIdle
    /\ \E tempo \in ConstructorTempos : QuantizerConstructed(sample_rate_, tempo)
    /\ DetectorConstructed
    /\ c_last = [op |-> "construct"]

SetTempo == \E tempo \in Tempos : Quantizer_set_tempo(tempo)
SetTimeSignature ==
    \E time_sig \in TimeSignatures : Quantizer_set_time_signature(time_sig)
ResetQuantizer == Quantizer_reset
QuantizeTiming ==
    \E input_time \in InputTimes, grid_resolution \in GridResolutions,
       strength \in Strengths :
        Quantizer_quantize_timing(input_time, grid_resolution, strength)

NextTiming == SetTempo \/ SetTimeSignature \/ ResetQuantizer \/ QuantizeTiming

SpecTiming == InitTiming /\ [][NextTiming]_vars

(***************************************************************************)
(* The PitchDetector on its own (pitch_detector.cpp), window buffer_size_. *)
(***************************************************************************)
\* the most detect_pitch calls between two resets
MaxEstimates == 3

\* the engine's fields that the detector does not own
nondetvars == <<initialized_, mode_, params_, current_scale_, key_center_,
                current_pitch_, target_pitch_, confidence_, metrics_,
                latency_history_, performance_counter_, phase_accumulator_,
                envelope_follower_, eng_last, eng_ghost>>

\* PitchDetector::detect_pitch(samples, sample_count, confidence) as a call
PitchDetector_detect_pitch(samples_null, samples, sample_count) ==
    /\ \E r \in {detect_pitch(samples_null, samples, sample_count, buffer_size_,
                               sample_rate_, min_frequency_, max_frequency_,
                               previous_pitch_)} :
           /\ previous_pitch_' = r.previous_pitch
           /\ d_last' = [op |-> "detect_pitch", calls |-> d_last.calls + 1,
                         samples_null |-> samples_null, samples |-> samples,
                         sample_count |-> sample_count, before |-> previous_pitch_,
                         pitch |-> r.pitch, confidence |-> r.confidence]
    /\ UNCHANGED <<bufvars, obsvars, thrvars, nondetvars, custom_scale_intervals_,
                   timvars, q_last, min_frequency_, max_frequency_, c_last>>

\* PitchDetector::set_min_frequency(min_freq)
PitchDetector_set_min_frequency(min_freq) ==
    /\ min_frequency_' = Max(1, min_freq)
    /\ d_last' = [op |-> "set_min_frequency", calls |-> d_last.calls]
    /\ UNCHANGED <<bufvars, obsvars, thrvars, engvars, custom_scale_intervals_,
                   timvars, q_last, max_frequency_, c_last>>

\* PitchDetector::set_max_frequency(max_freq)
PitchDetector_set_max_frequency(max_freq) ==
    /\ max_frequency_' = Min(sample_rate_ \div 2, max_freq)
    /\ d_last' = [op |-> "set_max_frequency", calls |-> d_last.calls]
    /\ UNCHANGED <<bufvars, obsvars, thrvars, engvars, custom_scale_intervals_,
                   timvars, q_last, min_frequency_, c_last>>

\* PitchDetector::reset() as a call
PitchDetector_reset_call ==
    /\ previous_pitch_' = PitchDetector_reset(previous_pitch_)
    /\ d_last' = [op |-> "reset", calls |-> 0]
    /\ UNCHANGED <<bufvars, obsvars, thrvars, nondetvars, custom_scale_intervals_,
                   timvars, q_last, min_frequency_, max_frequency_, c_last>>

\* PitchDetector(sample_rate_, buffer_size_)
InitDetector ==
    /\ EngineIdle
    /\ QuantizerConstructed(sample_rate_, 120)
    /\ DetectorConstructed
    /\ c_last = [op |-> "construct"]

\* the sample blocks callers pass: empty, one sample, silent, periodic at
\* lag 1, periodic at lag 2, longer than the window
DetectorBlocks == {<<>>, <<100>>, <<0, 0>>, <<100, 100, 100>>, <<100, 100, 0, 100>>,
                   <<100, 100, 100, 100, 100, 100>>}
\* the limits callers pass: below 1 Hz, the default, between the two
\* periodic blocks; between them, their lower pitch, above half the rate
MinFrequencies == {0, 80, 1500}
MaxFrequencies == {1200, 1000, 3000}

DetectPitch ==
    /\ d_last.calls < MaxEstimates
    /\ \E samples \in DetectorBlocks :
           PitchDetector_detect_pitch(FALSE, samples, Len(samples))
DetectPitchNull ==
    /\ d_last.calls < MaxEstimates
    /\ PitchDetector_detect_pitch(TRUE, <<>>, 3)
SetMinFrequency == \E min_freq \in MinFrequencies : PitchDetector_set_min_frequency(min_freq)
SetMaxFrequency == \E max_freq \in MaxFrequencies : PitchDetector_set_max_frequency(max_freq)
ResetDetector == PitchDetector_reset_call

NextDetector ==
    DetectPitch \/ DetectPitchNull \/ SetMinFrequency \/ SetMaxFrequency \/ ResetDetector

SpecDetector == InitDetector /\ [][NextDetector]_vars

(***************************************************************************)
(* PitchDetector::find_autocorr_peak over autocorrelation arrays.          *)
(***************************************************************************)
\* the longest autocorrelation array
MaxPeakSize == 4

\* PitchDetector::find_autocorr_peak(autocorr, size, confidence) as a call
PitchDetector_find_autocorr_peak(autocorr, size) ==
    /\ d_last' = [op |-> "find_autocorr_peak", calls |-> d_last.calls,
                  autocorr |-> autocorr, size |-> size,
                  peak |-> find_autocorr_peak(autocorr, size, sample_rate_,
                                              min_frequency_, max_frequency_)]
    /\ UNCHANGED <<bufvars, obsvars, thrvars, engvars, custom_scale_intervals_,
                   timvars, q_last, min_frequency_, max_frequency_, c_last>>

\* the arrays: output[0..size-1] of compute_autocorrelation
PeakValues == {-5, 0, 9}
AutocorrArrays == UNION {[0..(n - 1) -> PeakValues] : n \in 1..MaxPeakSize}

FindAutocorrPeak ==
    \E autocorr \in AutocorrArrays :
        PitchDetector_find_autocorr_peak(autocorr, Cardinality(DOMAIN autocorr))

NextPeak == FindAutocorrPeak \/ SetMinFrequency \/ SetMaxFrequency

SpecPeak == InitDetector /\ [][NextPeak]_vars

(***************************************************************************)
(* The PitchCorrector on its own (pitch_corrector.cpp).                    *)
(***************************************************************************)
\* the most correct_pitch calls between two resets
MaxCorrections == 2

\* the engine's fields that the corrector does not own
noncorvars == <<initialized_, mode_, params_, current_scale_, key_center_,
                current_pitch_, target_pitch_, confidence_, metrics_,
                latency_history_, performance_counter_, previous_pitch_,
                eng_last, eng_ghost>>

\* what a correct_pitch call leaves in the registers and in c_last; r is the
\* outcome of the call, output the caller's buffer before it
CorrectorAfter(op, r, input, output, sample_count, input_pitch, target_pitch, correction_strength) ==
    /\ phase_accumulator_' = r.phase
    /\ envelope_follower_' = r.envelope
    /\ c_last' = [op |-> op, calls |-> c_last.calls + 1,
                  input |-> input, output_before |-> output,
                  sample_count |-> sample_count, input_pitch |-> input_pitch,
                  target_pitch |-> target_pitch,
                  correction_strength |-> correction_strength,
                  before |-> [phase |-> phase_accumulator_,
                              envelope |-> envelope_follower_],
                  result |-> r.result, output |-> r.output, branch |-> r.branch,
                  read_indices |->
                      IF r.branch = "shift"
                      THEN ReadIndices(sample_count,
                                       calculate_pitch_ratio(input_pitch, target_pitch,
                                                             correction_strength),
                                       0, phase_accumulator_)
                      ELSE <<>>]
    /\ UNCHANGED <<bufvars, obsvars, thrvars, noncorvars, custom_scale_intervals_,
                   timvars, q_last, detvars>>

\* PitchCorrector::correct_pitch(input, output, sample_count, ...) as a call
PitchCorrector_correct_pitch_samples(input_null, output_null, input, output, sample_count, input_pitch, target_pitch, correction_strength) ==
    /\ c_last.calls < MaxCorrections
    /\ CorrectorAfter("correct_pitch_samples",
                      correct_pitch_samples(input_null, output_null, input, output,
                                            sample_count, input_pitch, target_pitch,
                                            correction_strength, buffer_size_,
                                            phase_accumulator_, envelope_follower_),
                      input, output, sample_count, input_pitch, target_pitch,
                      correction_strength)

\* PitchCorrector::correct_pitch(const AudioFrame&, AudioFrame&, ...) as a call
PitchCorrector_correct_pitch(input, output, input_pitch, target_pitch, correction_strength) ==
    /\ c_last.calls < MaxCorrections
    /\ CorrectorAfter("correct_pitch",
                      correct_pitch(input, output, input_pitch, target_pitch,
                                    correction_strength, buffer_size_,
                                    phase_accumulator_, envelope_follower_),
                      input, output, 1, input_pitch, target_pitch,
                      correction_strength)

\* PitchCorrector::reset() as a call
PitchCorrector_reset_call ==
    /\ \E r \in {PitchCorrector_reset(phase_accumulator_, envelope_follower_)} :
           /\ phase_accumulator_' = r.phase
           /\ envelope_follower_' = r.envelope
    /\ c_last' = [op |-> "reset", calls |-> 0]
    /\ UNCHANGED <<bufvars, obsvars, thrvars, noncorvars, custom_scale_intervals_,
                   timvars, q_last, detvars>>

\* PitchCorrector(sample_rate_, buffer_size_)
InitCorrector ==
    /\ EngineIdle
    /\ QuantizerConstructed(sample_rate_, 120)
    /\ DetectorConstructed
    /\ c_last = [op |-> "construct", calls |-> 0]

\* the sample blocks callers pass, of one, two and three samples
CorrectorBlocks == {<<100>>, <<100, -50>>, <<100, -50, 50>>}
\* the frames callers pass: no channel, mono, stereo with differing channels
CorrectorFrames == {<<>>, <<150>>, <<150, 50>>}
\* the output frames before the call
OutputFrames == {<<>>, <<7>>, <<7, 9>>}
\* input pitches: negative, none, 440 Hz; targets an octave below and above
InputPitches == {-1000, 0, 440000}
TargetPitches == {220000, 880000}
\* correction strengths: negative, none, full
CorrectionStrengths == {-500, 0, Unit}

CorrectPitchSamples ==
    \E input \in CorrectorBlocks, input_pitch \in InputPitches,
       target_pitch \in TargetPitches, correction_strength \in CorrectionStrengths :
        PitchCorrector_correct_pitch_samples(FALSE, FALSE, input,
                                             [i \in 1..Len(input) |-> 7], Len(input),
                                             input_pitch, target_pitch,
                                             correction_strength)

CorrectPitchRejected ==
    \E input_null, output_null \in BOOLEAN, sample_count \in {0, 1} :
        /\ input_null \/ output_null \/ sample_count = 0
        /\ PitchCorrector_correct_pitch_samples(input_null, output_null, <<100>>,
                                                <<7>>, sample_count, 440000, 880000,
                                                Unit)

CorrectPitchFrame ==
    \E input \in CorrectorFrames, output \in OutputFrames,
       input_pitch \in InputPitches, target_pitch \in TargetPitches,
       correction_strength \in CorrectionStrengths :
        PitchCorrector_correct_pitch(input, output, input_pitch, target_pitch,
                                     correction_strength)

ResetCorrector == PitchCorrector_reset_call

NextCorrector ==
    CorrectPitchSamples \/ CorrectPitchRejected \/ CorrectPitchFrame \/ ResetCorrector

SpecCorrector == InitCorrector /\ [][NextCorrector]_vars

(***************************************************************************)
(* Claims about the AudioBuffer, checked under SpecBuf.                    *)
(***************************************************************************)
FreeBefore == capacity_ - 1 - last.before.available

\* C1: a write with non-null frames stores exactly min(count, capacity - 1 -
\* available()) frames, returns that number and overwrites no unread frame;
\* when count exceeds the free space the result is below count and the
\* buffer is full afterwards.
C1_WriteStoresWhatFits ==
    (last.kind = "write" /\ ~last.null) =>
        /\ last.ret = Min(last.count, FreeBefore)
        /\ write_pos_ = (last.before.write_pos + last.ret) % capacity_
        /\ ~last.clobbered
        /\ (last.count > FreeBefore => (last.ret < last.count /\ full))

\* C2: a read with non-null frames returns exactly min(count, available())
\* frames, advances read_pos_ by that number only, returns only slots written
\* since they were last read, and read_pos_ never passes write_pos_.
C2_ReadReturnsWhatIsAvailable ==
    (last.kind = "read" /\ ~last.null) =>
        /\ last.ret = Min(last.count, last.before.available)
        /\ read_pos_ = (last.before.read_pos + last.ret) % capacity_
        /\ last.ret <= last.before.available

\* C3: with no clear in between, the frames returned by the reads are a
\* prefix of the frames the writes reported as written: none is lost,
\* duplicated or reordered.
C3_ReadsArePrefixOfWrites == IsPrefix(read_log, written_log)

\* C5: from an empty buffer, after N successful single-frame writes and M
\* successful single-frame reads with N <= capacity - 1, available() = N - M,
\* empty() holds exactly when N = M and full() exactly when N - M =
\* capacity - 1.
C5_SingleFrameCounts ==
    (last.single /\ last.nW <= capacity_ - 1) =>
        /\ last.nR <= last.nW
        /\ available = last.nW - last.nR
        /\ (empty <=> last.nW = last.nR)
        /\ (full <=> last.nW - last.nR = capacity_ - 1)

C5_Witness ==
    /\ last.single /\ capacity_ >= 3
    /\ last.nW = capacity_ - 1 /\ last.nR = 1
    /\ last.kind = "read" /\ last.ret = 1

\* C6: in every reachable state space() = capacity - 1 - available(); a write
\* of exactly space() frames is accepted in full, and after it full() is true
\* and space() = 0.
C6_SpaceIsWhatAWriteAccepts ==
    /\ space = capacity_ - 1 - available
    /\ LET res == WriteLoop(FreshFrames(space), space, 0, write_pos_, buffer_, 0)
       IN /\ res.written = space
          /\ fullAt(read_pos_, res.current_write, capacity_)
          /\ spaceAt(read_pos_, res.current_write, capacity_) = 0
    /\ (last.kind = "write" /\ ~last.null /\ last.count = last.before.space) =>
          (last.ret = last.count /\ full /\ space = 0)

C6_Witness ==
    /\ last.kind = "write" /\ ~last.null
    /\ last.before.available >= 1
    /\ last.count = last.before.space /\ last.count >= 1
    /\ last.ret = last.count

\* C4: with one producer in write and one consumer in read, concurrently and
\* without a lock, under every interleaving the consumer receives exactly
\* the frames the producer's writes reported as written, in order, and never
\* observes a slot whose payload is not completely stored (checked under
\* SpecSPSC).
C4_SPSCDeliversInOrder ==
    /\ IsPrefix(read_log, written_log)
    /\ \A k \in 1..Len(read_log) :
          \A ch \in 1..channels_ : read_log[k][ch] = read_log[k][1]

(***************************************************************************)
(* Claims about AutotuneEngine::process, checked under SpecEngine.         *)
(***************************************************************************)
\* the last call was process and its arguments met the precondition
ProcessRan ==
    /\ eng_last.op = "process"
    /\ eng_last.initialized
    /\ ~eng_last.input_null
    /\ ~eng_last.output_null
    /\ eng_last.frame_count >= 1

\* C7: in Bypass mode, after any history of earlier calls, a process call on
\* an initialized engine with non-null buffers and frame_count >= 1 leaves
\* every one of the frame_count output frames equal to the input frame and
\* returns success = true and detected_pitch = 0.
C7_BypassIsIdentity ==
    (ProcessRan /\ eng_last.mode = "BYPASS")
        => /\ \A i \in 1..eng_last.frame_count : eng_last.output[i] = eng_last.input[i]
           /\ eng_last.result.success
           /\ eng_last.result.detected_pitch = 0

\* a Bypass call on a sounding block, made after an earlier call had
\* detected a pitch
C7_Witness ==
    /\ ProcessRan
    /\ eng_last.mode = "BYPASS"
    /\ eng_last.input = <<Stereo, Stereo, Stereo>>
    /\ eng_last.output = eng_last.input
    /\ eng_last.before.current_pitch > 0
    /\ eng_last.before.envelope_follower > 0

\* C8: process called with a null input, a null output, frame_count = 0 or on
\* an uninitialized engine returns success = false and changes nothing: the
\* output block, frames_processed, the latency history and the registers of
\* the estimator and of the resynthesizer are as before the call.
C8_RejectedCallChangesNothing ==
    (/\ eng_last.op = "process"
     /\ \/ ~eng_last.initialized
        \/ eng_last.input_null
        \/ eng_last.output_null
        \/ eng_last.frame_count = 0)
        => /\ ~eng_last.result.success
           /\ eng_last.output = eng_last.output_before
           /\ Registers = eng_last.before

\* a call with frame_count = 0 on an engine whose registers an earlier call
\* has moved
C8_Witness ==
    /\ eng_last.op = "process"
    /\ eng_last.initialized
    /\ ~eng_last.input_null
    /\ ~eng_last.output_null
    /\ eng_last.frame_count = 0
    /\ metrics_.frames_processed > 0
    /\ latency_history_ # <<>>
    /\ previous_pitch_ > 0
    /\ envelope_follower_ > 0
    /\ phase_accumulator_ > 0

\* C9: in PitchCorrection and FullAutotune modes, whenever the estimator
\* rejects the block (returns pitch 0), process returns success = true with
\* detected_pitch = 0, corrected_pitch = 0 and confidence = 0, the
\* resynthesizer takes its pass-through branch for every frame, and its phase
\* accumulator and envelope are as before the call.
C9_RejectedBlockPassesThrough ==
    (/\ ProcessRan
     /\ eng_last.mode \in {"PITCH_CORRECTION", "FULL_AUTOTUNE"}
     /\ current_pitch_ = 0)
        => /\ eng_last.result.success
           /\ eng_last.result.detected_pitch = 0
           /\ eng_last.result.corrected_pitch = 0
           /\ eng_last.result.confidence = 0
           /\ Len(eng_last.branches) = eng_last.frame_count
           /\ \A i \in 1..Len(eng_last.branches) : eng_last.branches[i] = "passthrough"
           /\ phase_accumulator_ = eng_last.before.phase_accumulator
           /\ envelope_follower_ = eng_last.before.envelope_follower

\* C10: in PitchCorrection mode no scale quantization is applied: for every
\* block, scale, key and quantize_strength, the target frequency handed to the
\* resynthesizer and reported as corrected_pitch equals the detected pitch.
C10_PitchCorrectionTargetIsDetectedPitch ==
    (ProcessRan /\ eng_last.mode = "PITCH_CORRECTION")
        => /\ target_pitch_ = current_pitch_
           /\ eng_last.result.corrected_pitch = eng_last.result.detected_pitch

\* the estimate the detector gives for the block of the last process call,
\* from the detector's register before the call
BlockEstimate ==
    detect_pitch(FALSE, convert_to_mono(eng_last.input, eng_last.frame_count),
                 Min(eng_last.frame_count, buffer_size_), buffer_size_, sample_rate_,
                 min_frequency_, max_frequency_, eng_last.before.previous_pitch)

\* C11: in Quantization mode process copies the input frames to the output
\* unchanged, and its result reports the pitch detected from this block as
\* detected_pitch and quantize_pitch of that pitch under the current scale,
\* key and quantize_strength as corrected_pitch.
C11_QuantizationReportsPitches ==
    (ProcessRan /\ eng_last.mode = "QUANTIZATION")
        => /\ \A i \in 1..eng_last.frame_count : eng_last.output[i] = eng_last.input[i]
           /\ eng_last.result.detected_pitch = BlockEstimate.pitch
           /\ eng_last.result.corrected_pitch =
                  quantize_pitch(BlockEstimate.pitch, current_scale_, key_center_,
                                 params_.quantize_strength)

\* the target of the last process call: the block's estimate quantized under
\* the scale and key last given to set_scale and the quantize_strength last
\* given to set_parameters
GivenTarget ==
    quantize_pitch(BlockEstimate.pitch, eng_ghost.scale, eng_ghost.key_center,
                   eng_ghost.quantize_strength)

\* the resynthesizer run over the frames of the last call towards GivenTarget,
\* from the corrector's registers before the call
ResynthesizedToGivenTarget ==
    CorrectFrames(eng_last.input, eng_last.frame_count, 0, BlockEstimate.pitch,
                  GivenTarget, params_.correction_strength,
                  [result |-> DefaultResult,
                   output |-> SubSeq(eng_last.input, 1, eng_last.frame_count),
                   phase |-> eng_last.before.phase_accumulator,
                   envelope |-> eng_last.before.envelope_follower,
                   branches |-> <<>>])

\* C12: in FullAutotune mode process estimates, quantizes and resynthesizes:
\* detected_pitch is the block's estimate, corrected_pitch and the target the
\* resynthesizer works towards are quantize_pitch of that estimate under the
\* scale and key last given to set_scale and the quantize_strength last given
\* to set_parameters.
C12_FullAutotuneQuantizesThenResynthesizes ==
    (ProcessRan /\ eng_last.mode = "FULL_AUTOTUNE")
        => /\ eng_last.result.detected_pitch = BlockEstimate.pitch
           /\ eng_last.result.corrected_pitch = GivenTarget
           /\ target_pitch_ = GivenTarget
           /\ eng_last.branches = ResynthesizedToGivenTarget.branches
           /\ phase_accumulator_ = ResynthesizedToGivenTarget.phase
           /\ envelope_follower_ = ResynthesizedToGivenTarget.envelope
           /\ eng_last.result.success
                  => eng_last.output = ResynthesizedToGivenTarget.output

\* a FullAutotune call after set_scale and set_parameters, on a block the
\* estimator accepts and the quantizer moves, resynthesized by the shift branch
C12_Witness ==
    /\ ProcessRan
    /\ eng_last.mode = "FULL_AUTOTUNE"
    /\ eng_ghost.scale = "PENTATONIC"
    /\ eng_ghost.quantize_strength = 800
    /\ eng_last.before.performance_counter = 1
    /\ eng_last.result.detected_pitch = 2000000
    /\ eng_last.result.corrected_pitch > 2000000
    /\ eng_last.result.success
    /\ \A i \in 1..Len(eng_last.branches) : eng_last.branches[i] = "shift"
    /\ eng_last.output # eng_last.input

\* C13: after configure_features(c, q, f) the mode is FullAutotune when c and
\* q, PitchCorrection when only c, Quantization when only q, Bypass when
\* neither, whatever f and the mode before the call.
C13_ModeFollowsFirstTwoFlags ==
    eng_last.op = "configure_features"
        => /\ (eng_last.enable_pitch_correction /\ eng_last.enable_quantization)
                  => mode_ = "FULL_AUTOTUNE"
           /\ (eng_last.enable_pitch_correction /\ ~eng_last.enable_quantization)
                  => mode_ = "PITCH_CORRECTION"
           /\ (~eng_last.enable_pitch_correction /\ eng_last.enable_quantization)
                  => mode_ = "QUANTIZATION"
           /\ (~eng_last.enable_pitch_correction /\ ~eng_last.enable_quantization)
                  => mode_ = "BYPASS"

\* configure_features(true, false, true) called in Quantization mode after a
\* block was processed
C13_Witness ==
    /\ eng_last.op = "configure_features"
    /\ eng_last.enable_pitch_correction
    /\ ~eng_last.enable_quantization
    /\ eng_last.enable_formant_preservation
    /\ eng_last.mode_before = "QUANTIZATION"
    /\ mode_ = "PITCH_CORRECTION"
    /\ performance_counter_ = 1

\* C14: after reset frames_processed is 0, the latency history is empty, the
\* estimator's previous-pitch register is 0, the resynthesizer's phase
\* accumulator and envelope are 0, and the ring buffer is empty.
C14_ResetClearsRegisters ==
    eng_last.op = "reset"
        => /\ metrics_.frames_processed = 0
           /\ latency_history_ = <<>>
           /\ previous_pitch_ = 0
           /\ phase_accumulator_ = 0
           /\ envelope_follower_ = 0
           /\ available = 0

\* a reset of an engine all of whose registers had moved
C14_Witness ==
    /\ eng_last.op = "reset"
    /\ eng_last.before.metrics.frames_processed = 2 * buffer_size_
    /\ Len(eng_last.before.latency_history) = 2
    /\ eng_last.before.previous_pitch > 0
    /\ eng_last.before.phase_accumulator > 0
    /\ eng_last.before.envelope_follower > 0
    /\ previous_pitch_ = 0

\* what a freshly constructed estimator (previous_pitch_ = 0) returns for the
\* block of the last process call
FreshEstimate ==
    detect_pitch(FALSE, convert_to_mono(eng_last.input, eng_last.frame_count),
                 Min(eng_last.frame_count, buffer_size_), buffer_size_, sample_rate_,
                 min_frequency_, max_frequency_, 0)

\* C15: the pitch and confidence estimated for the first block after a reset
\* are those a freshly constructed estimator returns for that block, whatever
\* was processed before the reset.
C15_FirstEstimateAfterResetIsFresh ==
    (ProcessRan /\ eng_last.ran /\ eng_last.fresh = "reset")
        => /\ current_pitch_ = FreshEstimate.pitch
           /\ confidence_ = FreshEstimate.confidence
           /\ eng_last.result.detected_pitch = FreshEstimate.pitch
           /\ eng_last.result.confidence = FreshEstimate.confidence
           /\ previous_pitch_ = FreshEstimate.previous_pitch

\* the estimator had settled on 2000 Hz before the reset, and the first block
\* after it is estimated at 1000 Hz
C15_Witness ==
    /\ ProcessRan
    /\ eng_last.ran
    /\ eng_last.fresh = "reset"
    /\ eng_last.pre_reset_pitch = 2000000
    /\ current_pitch_ = 1000000
    /\ smooth_pitch(1000000, eng_last.pre_reset_pitch).pitch # 1000000

\* C16: frames_processed is buffer_size times the number of process calls
\* that passed the precondition check since construction or the last reset,
\* whatever their frame_count and mode; a rejected call leaves it as it was.
C16_FramesProcessedCountsAcceptedCalls ==
    /\ metrics_.frames_processed = Len(eng_ghost.arrivals) * buffer_size_
    /\ (eng_last.op = "process" /\ ~ProcessRan)
           => metrics_.frames_processed = eng_last.before.metrics.frames_processed

\* two accepted calls of fewer than buffer_size frames, then a rejected one
C16_Witness ==
    /\ eng_last.op = "process"
    /\ ~ProcessRan
    /\ Len(eng_ghost.arrivals) = 2
    /\ metrics_.frames_processed = 2 * buffer_size_
    /\ eng_last.frame_count # buffer_size_

\* the last n elements of q, all of q when it has fewer
LastOf(q, n) == SubSeq(q, IF Len(q) > n THEN Len(q) - n + 1 ELSE 1, Len(q))

\* C17: the latency history holds at most 100 measurements, the most recent
\* ones in arrival order; once it holds 100, an accepted process call drops
\* the oldest and appends the newest.
C17_HistoryKeepsLast100 ==
    /\ Len(latency_history_) <= history_cap
    /\ latency_history_ = LastOf(eng_ghost.arrivals, history_cap)
    /\ (ProcessRan /\ Len(eng_last.before.latency_history) = history_cap)
           => latency_history_ =
                  Append(Tail(eng_last.before.latency_history),
                         eng_ghost.arrivals[Len(eng_ghost.arrivals)])

\* the second accepted call on a full history: the first two measurements of
\* the session are gone
C17_Witness ==
    /\ ProcessRan
    /\ Len(eng_last.before.latency_history) = history_cap
    /\ Len(eng_ghost.arrivals) = history_cap + 2
    /\ Len(latency_history_) = history_cap
    /\ latency_history_[1] = eng_ghost.arrivals[3]
    /\ latency_history_[history_cap] = eng_ghost.arrivals[history_cap + 2]

\* the state EngineAfterBypassCalls describes, two calls into a session
EngineAfterTwoBypassCalls == EngineAfterBypassCalls(2)

(***************************************************************************)
(* Claims about the Quantizer, checked under SpecQuantizer.                *)
(***************************************************************************)
\* the interval list, the input in MIDI cents and the note found for the
\* last quantize_pitch or get_nearest_note call
LastIntervals == get_scale_intervals(q_last.scale)
LastInputMidi == frequency_to_midi(q_last.input_pitch)
LastNearest == find_nearest_scale_note(LastInputMidi, LastIntervals, q_last.key_center)

\* the whole MIDI number n is a note of the scale: some octave of one of its
\* intervals above or below the root
InScale(n, intervals, key_center) ==
    \E k \in 1..Len(intervals) : FloorMod(n - key_center - intervals[k], 12) = 0

\* C18: at strength 1 every in-scale whole MIDI number m is a fixed point,
\* for every scale and root: its nearest scale note is m, and quantize_pitch
\* of midi_to_frequency(m) is midi_to_frequency(m).
C18_InScaleNotesAreFixedPoints ==
    (/\ q_last.op = "quantize_pitch"
     /\ q_last.strength = Unit
     /\ q_last.input_pitch > 0
     /\ LastInputMidi % 100 = 0
     /\ q_last.input_pitch = midi_to_frequency(LastInputMidi)
     /\ InScale(LastInputMidi \div 100, LastIntervals, q_last.key_center))
        => /\ LastNearest = LastInputMidi
           /\ q_last.result = q_last.input_pitch

\* C19: for every non-empty scale, root and input the note get_nearest_note
\* chooses is in the scale (its offset from the root modulo 12 is one of the
\* intervals), and no in-scale note of any octave is strictly closer to the
\* input.
C19_ChosenNoteIsNearestInScale ==
    (/\ q_last.op = "get_nearest_note"
     /\ q_last.input_pitch > 0
     /\ LastIntervals # <<>>)
        => /\ \E k \in 1..Len(LastIntervals) :
                  FloorMod(q_last.note.midi_note - q_last.key_center, 12)
                      = LastIntervals[k]
           /\ \A n \in (q_last.note.midi_note - 24)..(q_last.note.midi_note + 24) :
                  InScale(n, LastIntervals, q_last.key_center)
                      => Abs(100 * n - LastInputMidi)
                             >= Abs(100 * q_last.note.midi_note - LastInputMidi)

\* the values of v reduced modulo 12 into 0..11, ascending, each once
RECURSIVE Ascending(_)
Ascending(S) ==
    IF S = {} THEN <<>>
    ELSE LET least == CHOOSE x \in S : \A y \in S : x <= y
         IN <<least>> \o Ascending(S \ {least})
ReducedSorted(v) == Ascending({FloorMod(v[k], 12) : k \in 1..Len(v)})

\* C20: after set_custom_scale(v) the Custom scale that quantize_pitch and
\* get_nearest_note use is v reduced modulo 12 into 0..11, sorted ascending,
\* without duplicates.
C20_CustomScaleIsNormalised ==
    q_last.op = "set_custom_scale"
        => get_scale_intervals("CUSTOM") = ReducedSorted(q_last.intervals)

\* a fixed point of a built-in scale; the Custom list <<14>> sending MIDI 74
\* to 86; the Custom list <<11>> sending the root 60 to 71 past 59; a list
\* that is only sorted
Scenario18_BuiltIn ==
    /\ q_last.op = "quantize_pitch" /\ q_last.scale = "MAJOR" /\ q_last.key_center = 62
    /\ q_last.strength = Unit /\ LastInputMidi = 7400
    /\ q_last.input_pitch = midi_to_frequency(7400)
    /\ q_last.result = q_last.input_pitch
Scenario18_Custom14 ==
    /\ q_last.op = "quantize_pitch" /\ q_last.scale = "CUSTOM" /\ q_last.key_center = 60
    /\ custom_scale_intervals_ = <<14>>
    /\ q_last.strength = Unit /\ LastInputMidi = 7400
    /\ q_last.result = midi_to_frequency(8600)
Scenario19_Custom11 ==
    /\ q_last.op = "get_nearest_note" /\ q_last.scale = "CUSTOM" /\ q_last.key_center = 60
    /\ custom_scale_intervals_ = <<11>>
    /\ LastInputMidi = 6000
    /\ q_last.note.midi_note = 71
Scenario20_Dup ==
    /\ q_last.op = "set_custom_scale" /\ q_last.intervals = <<14, 11>>
    /\ custom_scale_intervals_ = <<11, 14>>

(***************************************************************************)
(* Claims about the Quantizer's tempo, checked under SpecTiming.           *)
(***************************************************************************)
\* C21: in every state of the Quantizer get_tempo() lies in 60..200, and
\* the grid size quantize_timing uses is the one computed from the clamped
\* value of the tempo last given.
C21_TempoIsClamped ==
    /\ 60 <= tempo_ /\ tempo_ <= 200
    /\ q_last.op = "quantize_timing"
           => q_last.samples_per_grid =
                  get_samples_per_grid(q_last.grid_resolution,
                                       update_timing(Clamp(q_last.tempo, 60, 200),
                                                     time_signature_, sample_rate_))

\* C21 for tempos given to set_tempo: after the first set_tempo the tempo is
\* in range
TempoClampedAfterSetTempo ==
    q_last.op = "set_tempo" => (60 <= tempo_ /\ tempo_ <= 200)

(***************************************************************************)
(* Claims about the PitchDetector, checked under SpecDetector.             *)
(***************************************************************************)
\* C22: detect_pitch with a null sample pointer, with sample_count 0 or with
\* sample_count above the window size returns pitch 0 and confidence 0 and
\* leaves the previous-pitch register as it was.
C22_RejectedBlockLeavesRegister ==
    (/\ d_last.op = "detect_pitch"
     /\ \/ d_last.samples_null
        \/ d_last.sample_count = 0
        \/ d_last.sample_count > buffer_size_)
        => /\ d_last.pitch = 0
           /\ d_last.confidence = 0
           /\ previous_pitch_ = d_last.before

\* a block longer than the window, given to a detector that has a previous
\* pitch
C22_Witness ==
    /\ d_last.op = "detect_pitch"
    /\ ~d_last.samples_null
    /\ d_last.sample_count > buffer_size_
    /\ d_last.before > 0
    /\ previous_pitch_ = d_last.before
    /\ d_last.pitch = 0

\* C23: every pitch detect_pitch returns is 0 or lies within the frequency
\* range configured at the time of the call.
C23_PitchIsZeroOrInRange ==
    d_last.op = "detect_pitch"
        => \/ d_last.pitch = 0
           \/ /\ min_frequency_ * 1000 <= d_last.pitch
              /\ d_last.pitch <= max_frequency_ * 1000

\* an estimate of 2000 Hz, then set_max_frequency(1000), then a block at
\* 1000 Hz: the pitch returned is 1800 Hz
Scenario23_Blended ==
    /\ d_last.op = "detect_pitch"
    /\ d_last.before = 2000000
    /\ max_frequency_ = 1000
    /\ d_last.pitch = 1800000

\* the lag range of the peak search for the last find_autocorr_peak call
lag_min == Max(1, sample_rate_ \div max_frequency_)
lag_max == Min(d_last.size - 1, sample_rate_ \div min_frequency_)

\* C26: the peak search returns the lag in lag_min..lag_max with the
\* largest autocorrelation value, the lowest such lag when several tie, and
\* no peak (lag 0, confidence 0) when lag_min >= lag_max.
C26_PeakIsLowestLargestLag ==
    d_last.op = "find_autocorr_peak"
        => IF lag_min >= lag_max
           THEN d_last.peak.lag = 0 /\ d_last.peak.confidence = 0
           ELSE /\ d_last.peak.lag \in lag_min..lag_max
                /\ \A l \in lag_min..lag_max :
                       /\ d_last.autocorr[l] <= d_last.autocorr[d_last.peak.lag]
                       /\ d_last.autocorr[l] = d_last.autocorr[d_last.peak.lag]
                              => d_last.peak.lag <= l

\* lags 1..3, the largest value at lags 2 and 3
C26_Witness ==
    /\ d_last.op = "find_autocorr_peak"
    /\ d_last.size = 4
    /\ lag_min = 1 /\ lag_max = 3
    /\ d_last.autocorr[1] < d_last.autocorr[2]
    /\ d_last.autocorr[2] = d_last.autocorr[3]
    /\ d_last.peak.lag = 2

\* a range of one lag only is no range: lag_min = lag_max = 1, no peak
Scenario26_SingleLag ==
    /\ d_last.op = "find_autocorr_peak"
    /\ lag_min = 1 /\ lag_max = 1
    /\ d_last.autocorr[1] > 0
    /\ d_last.peak.lag = 0

\* the last corrector call was a correct_pitch on an accepted sample block
AcceptedSampleBlock ==
    /\ c_last.op = "correct_pitch_samples"
    /\ c_last.branch # "rejected"

\* C24: correct_pitch on a sample block with input pitch <= 0 or strength
\* <= 0 copies the input to the output, returns success with confidence 0
\* and leaves phase_accumulator_ and envelope_follower_ as they were.
C24_PassThroughIsIdentity ==
    (/\ AcceptedSampleBlock
     /\ c_last.input_pitch <= 0 \/ c_last.correction_strength <= 0)
        => /\ c_last.output = c_last.input
           /\ c_last.result.success
           /\ c_last.result.confidence = 0
           /\ phase_accumulator_ = c_last.before.phase
           /\ envelope_follower_ = c_last.before.envelope

\* a zero-strength call at 440 Hz after a shifting call has moved the
\* registers
C24_Witness ==
    /\ AcceptedSampleBlock
    /\ c_last.input_pitch > 0 /\ c_last.correction_strength = 0
    /\ c_last.input = <<100, -50, 50>>
    /\ c_last.output = c_last.input
    /\ c_last.before.phase > 0 /\ c_last.before.envelope > 0
    /\ phase_accumulator_ = c_last.before.phase

\* the single-sample correct_pitch of channel 0 for the last frame call
ChannelZeroShift ==
    correct_pitch_samples(FALSE, FALSE, <<c_last.input[1]>>, <<0>>, 1,
                          c_last.input_pitch, c_last.target_pitch,
                          c_last.correction_strength, buffer_size_,
                          c_last.before.phase, c_last.before.envelope)

\* C25: the frame overload sets every output channel to the single-sample
\* shift of input channel 0 when the channel counts are equal, and returns
\* failure with output, phase and envelope unchanged when they differ.
C25_FrameUsesChannelZero ==
    c_last.op = "correct_pitch"
        => IF Len(c_last.input) = Len(c_last.output_before)
           THEN /\ Len(c_last.output) = Len(c_last.input)
                /\ \A ch \in 1..Len(c_last.output) :
                       c_last.output[ch] = ChannelZeroShift.output[1]
           ELSE /\ ~c_last.result.success
                /\ c_last.output = c_last.output_before
                /\ phase_accumulator_ = c_last.before.phase
                /\ envelope_follower_ = c_last.before.envelope

\* a stereo frame with differing channels, shifted: both outputs equal
C25_Witness ==
    /\ c_last.op = "correct_pitch"
    /\ c_last.input = <<150, 50>>
    /\ c_last.output_before = <<7, 9>>
    /\ c_last.branch = "shift"
    /\ c_last.output[1] = c_last.output[2]
    /\ c_last.output[1] # 7

\* unequal channel counts after a shifting call
Scenario25_Unequal ==
    /\ c_last.op = "correct_pitch"
    /\ c_last.input = <<150, 50>>
    /\ c_last.output_before = <<7>>
    /\ c_last.before.envelope > 0
    /\ ~c_last.result.success
    /\ c_last.output = <<7>>

\* C28: in a shifting correct_pitch call on n samples the read index
\* floor(phase) is below n at every output sample.
C28_ReadIndexBelowBlockLength ==
    (AcceptedSampleBlock /\ c_last.branch = "shift")
        => \A i \in 1..Len(c_last.read_indices) :
               c_last.read_indices[i] < c_last.sample_count

\* the phase a call leaves is below its own block length, so the read
\* index is always below the longest block length passed
ReadIndexBelowLongestBlock ==
    (AcceptedSampleBlock /\ c_last.branch = "shift")
        => \A i \in 1..Len(c_last.read_indices) : c_last.read_indices[i] < 3

\* a one-sample block after a three-sample block at ratio 0.5: index 1
Scenario28_ShorterBlock ==
    /\ AcceptedSampleBlock /\ c_last.branch = "shift"
    /\ c_last.sample_count = 1
    /\ c_last.before.phase = 1500
    /\ c_last.read_indices = <<1>>
    /\ c_last.output = <<0>>

\* the last buffer call was one the buffer rejects: a null pointer, a count
\* of 0, a write while full() or a read while empty()
RejectedBufferCall ==
    /\ last.kind \in {"write", "read"}
    /\ \/ last.null
       \/ last.count = 0
       \/ /\ last.kind = "write"
          /\ fullAt(last.before.read_pos, last.before.write_pos, capacity_)
       \/ /\ last.kind = "read"
          /\ emptyAt(last.before.read_pos, last.before.write_pos)

\* C27: a rejected write or read returns 0 and leaves read_pos_, write_pos_
\* and every stored frame as they were.
C27_RejectedCallLeavesBuffer ==
    RejectedBufferCall
        => /\ last.ret = 0
           /\ read_pos_ = last.before.read_pos
           /\ write_pos_ = last.before.write_pos
           /\ buffer_ = last.before.buffer

\* a write of two frames on a full buffer of capacity 3 holding two frames
C27_Witness ==
    /\ last.kind = "write" /\ ~last.null /\ last.count = 2
    /\ capacity_ = 3
    /\ last.before.available = 2
    /\ fullAt(last.before.read_pos, last.before.write_pos, capacity_)
    /\ last.ret = 0
    /\ buffer_ = last.before.buffer

\* a read of two frames on a buffer emptied by reads
Scenario27_ReadEmpty ==
    /\ last.kind = "read" /\ ~last.null /\ last.count = 2
    /\ last.nR > 0
    /\ emptyAt(last.before.read_pos, last.before.write_pos)
    /\ last.ret = 0

\* the last call was an accepted process of one frame (process_frame) in a
\* mode that runs the estimator
OneFrameCorrected ==
    /\ ProcessRan
    /\ eng_last.mode \in {"PITCH_CORRECTION", "FULL_AUTOTUNE"}
    /\ eng_last.frame_count = 1

\* C29: in PitchCorrection and FullAutotune modes every process call with
\* frame_count = 1 reports detected_pitch = 0 and confidence = 0 and runs
\* the resynthesizer in its pass-through branch, whatever the input and the
\* blocks processed before.
C29_OneFrameIsPassThrough ==
    OneFrameCorrected
        => /\ eng_last.result.detected_pitch = 0
           /\ eng_last.result.confidence = 0
           /\ eng_last.branches = <<"passthrough">>

\* the reported pitch and confidence are 0 for every one-frame call, and a
\* frame with channels passes through
OneFrameHasNoEstimate ==
    OneFrameCorrected
        => /\ eng_last.result.detected_pitch = 0
           /\ eng_last.result.confidence = 0
           /\ current_pitch_ = 0
           /\ Len(eng_last.input[1]) > 0 => eng_last.branches = <<"passthrough">>

\* a one-frame call after an accepted estimate: no pitch, pass-through
Scenario29_AfterEstimate ==
    /\ OneFrameCorrected
    /\ eng_last.before.previous_pitch > 0
    /\ eng_last.input = <<Stereo>>
    /\ eng_last.result.detected_pitch = 0
    /\ eng_last.branches = <<"passthrough">>

\* a frame without channels: the resynthesizer is not run and fails
Scenario29_NoChannels ==
    /\ OneFrameCorrected
    /\ eng_last.input = <<NoChannels>>
    /\ eng_last.branches = <<"rejected">>
    /\ ~eng_last.result.success

\* every frame of the last call's block has two or more channels
MultiChannelBlock ==
    \A i \in 1..eng_last.frame_count : Len(eng_last.input[i]) >= 2

\* C30: with correction_strength = 0 a process call in PitchCorrection or
\* FullAutotune mode on frames of two or more channels leaves every output
\* frame equal to the input frame on every channel.
C30_ZeroStrengthKeepsChannels ==
    (/\ ProcessRan
     /\ eng_last.mode \in {"PITCH_CORRECTION", "FULL_AUTOTUNE"}
     /\ params_.correction_strength = 0
     /\ MultiChannelBlock)
        => eng_last.output = eng_last.input

\* with correction_strength = 0 every output channel holds input channel 0
ZeroStrengthBroadcastsChannelZero ==
    (/\ ProcessRan
     /\ eng_last.mode \in {"PITCH_CORRECTION", "FULL_AUTOTUNE"}
     /\ params_.correction_strength = 0
     /\ MultiChannelBlock)
        => \A i \in 1..eng_last.frame_count :
               \A ch \in 1..Len(eng_last.output[i]) :
                   eng_last.output[i][ch] = eng_last.input[i][1]

\* the stereo frame (1.5, 0.5) comes out as (1.5, 1.5)
Scenario30_Stereo ==
    /\ ProcessRan
    /\ eng_last.mode = "PITCH_CORRECTION"
    /\ params_.correction_strength = 0
    /\ eng_last.input = <<Stereo, Stereo, Stereo>>
    /\ current_pitch_ > 0
    /\ eng_last.output = <<<<150, 150>>, <<150, 150>>, <<150, 150>>>>
====
